---- MODULE Spec2Model ----
(***************************************************************************)
(* Model of the chat tools of the AI-powered todo backend                  *)
(* (backend/app/agents/tools.py) over the task service                     *)
(* (backend/app/services/task_service.py).                                 *)
(*                                                                         *)
(* Python strings that the code searches, slices or strips are sequences   *)
(* of one-character strings; values the code only compares (statuses,      *)
(* priorities, users, descriptions, deadlines) are TLA+ strings.           *)
(***************************************************************************)
EXTENDS Integers, Sequences, FiniteSets, TLC

VARIABLES
    tasks,         \* rows of the tasks table, in creation order
    shares,        \* rows of the task_shares table: <<task id, user>>
    now,           \* logical time: the value datetime.now() returns next
    ops,           \* number of tool invocations so far
    before,        \* history: the tasks table when the last invocation began
    lastCall,      \* history: the last tool invocation and its arguments
    resolved,      \* history: the ResolutionOutcome of the last invocation
    lastResult,    \* what the last tool invocation returned (or raised)
    background,    \* tasks started with asyncio.create_task, not yet run
    users,         \* rows of the users table, in creation order
    _tasks,        \* TaskStore._tasks: task id -> Task
    _next_id,      \* TaskStore._next_id
    added,         \* history: the ids that TaskStore.add returned, in order
    deleted,       \* history: the ids that TaskStore.delete removed
    db_tasks,      \* rows of the tasks table of DatabaseTaskStore: id -> row
    dbResult,      \* what the last command returned over DatabaseTaskStore
    _rate_limit_state, \* decorators._rate_limit_state[func_name]
    clock,         \* time.time()
    invoked,       \* history: the times at which the wrapped function ran
    max_calls,     \* argument of rate_limit
    time_window,   \* argument of rate_limit
    walked,        \* history: the status changes updates have made
    pending,       \* update_task invocations between resolution and persistence
    query,         \* intent extractor: the text handed to the extractor
    parsedStatus,  \* intent extractor: result of _parse_status_from_query
    parsedTitle    \* intent extractor: result of _parse_title_from_query

vars == <<tasks, shares, now, ops, before, lastCall, resolved, lastResult,
          background, users, _tasks, _next_id, added, deleted,
          db_tasks, dbResult, _rate_limit_state, clock, invoked, max_calls,
          time_window, walked, pending,
          query, parsedStatus, parsedTitle>>

toolVars == <<tasks, shares, now, ops, before, lastCall, resolved, lastResult,
              background>>
extractVars == <<query, parsedStatus, parsedTitle>>
authVars == <<users>>
storeVars == <<_tasks, _next_id, added, deleted>>
dbVars == <<db_tasks, dbResult>>
rateVars == <<_rate_limit_state, clock, invoked, max_calls, time_window>>
restVars == <<dbVars, rateVars, walked, pending>>

NoCall == [tool |-> "none"]
NoResolution == [outcome |-> "none", ids |-> <<>>]
NoResult == [kind |-> "none"]

\* settings.ai_rate_limit_calls, settings.ai_rate_limit_window
AI_RATE_LIMIT_CALLS == 10
AI_RATE_LIMIT_WINDOW == 60

\* the rate limiter unused, with the limits of the AI service
RateIdle ==
    /\ _rate_limit_state = <<>>
    /\ clock = 0
    /\ invoked = <<>>
    /\ max_calls = AI_RATE_LIMIT_CALLS
    /\ time_window = AI_RATE_LIMIT_WINDOW

RestIdle ==
    /\ db_tasks = <<>>
    /\ dbResult = NoResult
    /\ RateIdle
    /\ walked = {}
    /\ pending = {}

(***************************************************************************)
(* Bounds of the model.                                                    *)
(***************************************************************************)
\* Number of fragments a text handed to the intent extractor is built from.
MaxFrags == 3
\* Number of tool invocations in one behaviour.
MaxOps == 1
\* Number of rows the tasks table may hold.
MaxTasks == 8

(***************************************************************************)
(* Python's None.  NoStr is None where a character sequence is expected.   *)
(***************************************************************************)
None == "None"
NoStr == <<"None">>
Unset == <<"Unset">>

(***************************************************************************)
(* str methods.                                                            *)
(***************************************************************************)
UpperChars == <<"A", "B", "C", "D", "E", "F", "G", "H", "I", "J", "K", "L", "M", "N", "O", "P", "Q", "R", "S", "T", "U", "V", "W", "X", "Y", "Z">>
LowerChars == <<"a", "b", "c", "d", "e", "f", "g", "h", "i", "j", "k", "l", "m", "n", "o", "p", "q", "r", "s", "t", "u", "v", "w", "x", "y", "z">>

\* the lower-case letter of each upper-case letter
ToLower ==
    [c \in {UpperChars[i] : i \in 1..Len(UpperChars)} |->
        LowerChars[CHOOSE i \in 1..Len(UpperChars) : UpperChars[i] = c]]

lower_char(c) == IF c \in DOMAIN ToLower THEN ToLower[c] ELSE c

\* str.lower()
lower(s) == [i \in 1..Len(s) |-> lower_char(s[i])]

\* s.find(p) + 1: the position of the first occurrence of p in s, 0 if none
find(s, p) ==
    LET at == {i \in 1..(Len(s) - Len(p) + 1) : SubSeq(s, i, i + Len(p) - 1) = p}
    IN  IF at = {} THEN 0 ELSE CHOOSE i \in at : \A j \in at : i <= j

\* p in s
contains(s, p) ==
    \E i \in 0..(Len(s) - Len(p)) : \A j \in 1..Len(p) : s[i + j] = p[j]

Whitespace == {" ", "\t", "\n"}

\* str.rstrip(chars)
rstrip(s, chars) ==
    LET keep == {i \in 1..Len(s) : s[i] \notin chars}
    IN  IF keep = {} THEN <<>>
        ELSE SubSeq(s, 1, CHOOSE i \in keep : \A j \in keep : j <= i)

\* str.lstrip(chars)
lstrip(s, chars) ==
    LET keep == {i \in 1..Len(s) : s[i] \notin chars}
    IN  IF keep = {} THEN <<>>
        ELSE SubSeq(s, CHOOSE i \in keep : \A j \in keep : i <= j, Len(s))

\* str.strip()
strip(s) == lstrip(rstrip(s, Whitespace), Whitespace)

\* any(word in text for word in words)
any_in(words, text) == \E i \in 1..Len(words) : contains(text, words[i])

(***************************************************************************)
(* Intent extractor: _parse_status_from_query.                             *)
(***************************************************************************)
CompletedKeywords ==
    << <<"c", "o", "m", "p", "l", "e", "t", "e">>,
       <<"d", "o", "n", "e">>,
       <<"f", "i", "n", "i", "s", "h", "e", "d">>,
       <<"m", "a", "r", "k", " ", "a", "s", " ", "d", "o", "n", "e">>,
       <<"m", "a", "r", "k", " ", "c", "o", "m", "p", "l", "e", "t", "e">> >>

InProgressKeywords ==
    << <<"s", "t", "a", "r", "t">>,
       <<"i", "n", " ", "p", "r", "o", "g", "r", "e", "s", "s">>,
       <<"s", "t", "a", "r", "t", "e", "d">>,
       <<"w", "o", "r", "k", "i", "n", "g">>,
       <<"m", "a", "r", "k", " ", "i", "n", " ", "p", "r", "o", "g", "r", "e", "s", "s">> >>

PendingKeywords ==
    << <<"p", "e", "n", "d", "i", "n", "g">>,
       <<"m", "a", "r", "k", " ", "a", "s", " ", "p", "e", "n", "d", "i", "n", "g">>,
       <<"n", "o", "t", " ", "d", "o", "n", "e">>,
       <<"r", "e", "o", "p", "e", "n">> >>

\* A slip in the order of the checks: in-progress keywords tested first.
parse_status_in_progress_first(q) ==
    LET query_lower == lower(q)
    IN  IF any_in(InProgressKeywords, query_lower) THEN "in_progress"
        ELSE IF any_in(CompletedKeywords, query_lower) THEN "completed"
        ELSE IF any_in(PendingKeywords, query_lower) THEN "pending"
        ELSE None

_parse_status_from_query(q) ==
    LET query_lower == lower(q)
    IN  IF any_in(CompletedKeywords, query_lower) THEN "completed"
        ELSE IF any_in(InProgressKeywords, query_lower) THEN "in_progress"
        ELSE IF any_in(PendingKeywords, query_lower) THEN "pending"
        ELSE None

(***************************************************************************)
(* Intent extractor: _parse_title_from_query.                              *)
(***************************************************************************)
TrailingPunctuation == {".", ",", "!", "?"}

RenameTo == <<"r", "e", "n", "a", "m", "e", " ", "t", "o">>
RetitleTo == <<"r", "e", "t", "i", "t", "l", "e", " ", "t", "o">>
ChangeTitleTo == <<"c", "h", "a", "n", "g", "e", " ", "t", "i", "t", "l", "e", " ", "t", "o">>
NameIt == <<"n", "a", "m", "e", " ", "i", "t">>
CallIt == <<"c", "a", "l", "l", " ", "i", "t">>
RenamePatterns == << <<"r", "e", "n", "a", "m", "e", " ", "t", "o", " ">>, <<"r", "e", "t", "i", "t", "l", "e", " ", "t", "o", " ">> >>
NamePatterns == << <<"n", "a", "m", "e", " ", "i", "t", " ">>, <<"c", "a", "l", "l", " ", "i", "t", " ">> >>

\* query[idx:].strip().rstrip('.,!?') with idx just past the first
\* occurrence of pattern in query_lower
title_after(q, query_lower, pattern) ==
    LET idx == find(query_lower, pattern) + Len(pattern)
    IN  rstrip(strip(SubSeq(q, idx, Len(q))), TrailingPunctuation)

\* for pattern in patterns: if pattern in query_lower: ... if new_title:
\* return new_title.  NoStr when the loop ends without returning.
RECURSIVE for_pattern(_, _, _)
for_pattern(q, query_lower, patterns) ==
    IF patterns = <<>> THEN NoStr
    ELSE LET pattern == Head(patterns)
         IN  IF contains(query_lower, pattern)
                /\ title_after(q, query_lower, pattern) # <<>>
             THEN title_after(q, query_lower, pattern)
             ELSE for_pattern(q, query_lower, Tail(patterns))

_parse_title_from_query(q) ==
    LET query_lower == lower(q)
        renamed ==
            IF contains(query_lower, RenameTo) \/ contains(query_lower, RetitleTo)
            THEN for_pattern(q, query_lower, RenamePatterns)
            ELSE NoStr
        changed ==
            IF contains(query_lower, ChangeTitleTo)
               /\ title_after(q, query_lower, ChangeTitleTo) # <<>>
            THEN title_after(q, query_lower, ChangeTitleTo)
            ELSE NoStr
        named ==
            IF contains(query_lower, NameIt) \/ contains(query_lower, CallIt)
            THEN for_pattern(q, query_lower, NamePatterns)
            ELSE NoStr
    IN  IF renamed # NoStr THEN renamed
        ELSE IF changed # NoStr THEN changed
        ELSE named

(***************************************************************************)
(* The intent extractor on its own: a text is drawn, then each extractor   *)
(* is applied to it once.                                                  *)
(***************************************************************************)
Fragments ==
    { <<"D", "o", "n", "e">>,
      <<"c", "o", "m", "p", "l", "e", "t", "e">>,
      <<"s", "t", "a", "r", "t">>,
      <<"P", "e", "n", "d", "i", "n", "g">>,
      <<"r", "e", "o", "p", "e", "n">>,
      <<"R", "e", "n", "a", "m", "e", " ", "t", "o", " ">>,
      <<"r", "e", "t", "i", "t", "l", "e", " ", "t", "o", " ">>,
      <<"c", "h", "a", "n", "g", "e", " ", "t", "i", "t", "l", "e", " ", "t", "o">>,
      <<"c", "a", "l", "l", " ", "i", "t", " ">>,
      <<"N", "a", "m", "e", " ", "i", "t", " ">>,
      <<"T", "e", "a">>,
      <<".">>,
      <<" ">> }

\* The texts made of at most n fragments.
RECURSIVE Texts(_)
Texts(n) ==
    IF n = 0 THEN {<<>>}
    ELSE Texts(n - 1) \cup {t \o f : t \in Texts(n - 1), f \in Fragments}

ToolsIdle ==
    /\ tasks = <<>>
    /\ shares = {}
    /\ now = 0
    /\ ops = 0
    /\ before = <<>>
    /\ lastCall = NoCall
    /\ resolved = NoResolution
    /\ lastResult = NoResult
    /\ background = {}
    /\ users = <<>>
    /\ _tasks = <<>>
    /\ _next_id = 1
    /\ added = <<>>
    /\ deleted = {}
    /\ RestIdle

ExtractInit ==
    /\ ToolsIdle
    /\ query \in Texts(MaxFrags)
    /\ parsedStatus = "Unset"
    /\ parsedTitle = Unset

ExtractStatus ==
    /\ parsedStatus = "Unset"
    /\ parsedStatus' = _parse_status_from_query(query)
    /\ UNCHANGED <<query, parsedTitle>>
    /\ UNCHANGED <<toolVars, authVars, storeVars, restVars>>

ExtractTitle ==
    /\ parsedTitle = Unset
    /\ parsedTitle' = _parse_title_from_query(query)
    /\ UNCHANGED <<query, parsedStatus>>
    /\ UNCHANGED <<toolVars, authVars, storeVars, restVars>>

ExtractNext == ExtractStatus \/ ExtractTitle

ExtractSpec == ExtractInit /\ [][ExtractNext]_vars

(***************************************************************************)
(* Claims about the intent extractor (checked under ExtractSpec).          *)
(***************************************************************************)
\* k occurs in t as a substring: t is some text, then k, then some text.
Occurs(k, t) ==
    \E i \in 1..(Len(t) + 1) :
        /\ i + Len(k) - 1 <= Len(t)
        /\ SubSeq(t, i, i + Len(k) - 1) = k

Elements(s) == {s[i] : i \in 1..Len(s)}

HasKeyword(text, keywords) ==
    \E k \in Elements(keywords) : Occurs(k, lower(text))

\* C1: extract_status returns the first category, in the order completed,
\* in_progress, pending, one of whose keywords occurs in the lower-cased
\* text, and no inference when no keyword of any category occurs.
C1_StatusPrecedence ==
    parsedStatus # "Unset" =>
        /\ HasKeyword(query, CompletedKeywords) => parsedStatus = "completed"
        /\ (~HasKeyword(query, CompletedKeywords)
            /\ HasKeyword(query, InProgressKeywords))
                => parsedStatus = "in_progress"
        /\ (~HasKeyword(query, CompletedKeywords)
            /\ ~HasKeyword(query, InProgressKeywords)
            /\ HasKeyword(query, PendingKeywords))
                => parsedStatus = "pending"
        /\ (~HasKeyword(query, CompletedKeywords)
            /\ ~HasKeyword(query, InProgressKeywords)
            /\ ~HasKeyword(query, PendingKeywords))
                => parsedStatus = None

\* A text with a completed keyword and an in-progress keyword was parsed.
C1_Witness ==
    /\ parsedStatus = "completed"
    /\ HasKeyword(query, CompletedKeywords)
    /\ HasKeyword(query, InProgressKeywords)
    /\ HasKeyword(query, PendingKeywords)

\* The trigger phrases in the order extract_title checks them, each with
\* the category it belongs to.
TriggerPhrases ==
    << [category |-> 1, phrase |-> <<"r", "e", "n", "a", "m", "e", " ", "t", "o", " ">>],
       [category |-> 1, phrase |-> <<"r", "e", "t", "i", "t", "l", "e", " ", "t", "o", " ">>],
       [category |-> 2, phrase |-> <<"c", "h", "a", "n", "g", "e", " ", "t", "i", "t", "l", "e", " ", "t", "o">>],
       [category |-> 3, phrase |-> <<"n", "a", "m", "e", " ", "i", "t", " ">>],
       [category |-> 3, phrase |-> <<"c", "a", "l", "l", " ", "i", "t", " ">>] >>

PhrasePresent(i) == Occurs(TriggerPhrases[i].phrase, lower(query))

PresentCategories ==
    {TriggerPhrases[i].category : i \in {j \in 1..Len(TriggerPhrases) : PhrasePresent(j)}}

\* The first trigger phrase, in check order, that occurs in the text.
FirstPhrase ==
    CHOOSE i \in 1..Len(TriggerPhrases) :
        PhrasePresent(i) /\ \A j \in 1..(i - 1) : ~PhrasePresent(j)

\* The original-case text after the first occurrence of phrase i, stripped
\* of surrounding whitespace and then of trailing punctuation.
TextAfter(i) ==
    LET p == TriggerPhrases[i].phrase
        first == CHOOSE k \in 0..(Len(query) - Len(p)) :
                    /\ \A j \in 1..Len(p) : lower(query)[k + j] = p[j]
                    /\ \A m \in 0..(k - 1) :
                          \E j \in 1..Len(p) : lower(query)[m + j] # p[j]
    IN  rstrip(strip(SubSeq(query, first + Len(p) + 1, Len(query))),
               TrailingPunctuation)

\* C2: when trigger phrases of more than one category occur, only a phrase
\* of the earliest-checked category is used, and the result is the text
\* that follows its first occurrence.
C2_EarliestCategoryOnly ==
    (parsedTitle # Unset /\ Cardinality(PresentCategories) > 1) =>
        \E i \in 1..Len(TriggerPhrases) :
            /\ PhrasePresent(i)
            /\ TriggerPhrases[i].category = TriggerPhrases[FirstPhrase].category
            /\ parsedTitle = IF TextAfter(i) = <<>> THEN NoStr ELSE TextAfter(i)

\* The present phrases of the earliest-checked category that occurs.
FirstCategoryPhrases ==
    {i \in 1..Len(TriggerPhrases) :
        /\ PhrasePresent(i)
        /\ TriggerPhrases[i].category = TriggerPhrases[FirstPhrase].category}

\* C3: when nothing but whitespace and trailing punctuation follows the
\* trigger phrase found first (here: every present phrase of the
\* earliest-checked category), extract_title returns no inference and
\* takes no title from a phrase of a later-checked category.
C3_EmptyRemainderNoInference ==
    (parsedTitle # Unset
     /\ PresentCategories # {}
     /\ \A i \in FirstCategoryPhrases : TextAfter(i) = <<>>)
        => parsedTitle = NoStr

(***************************************************************************)
(* uuid.UUID: parsing an identifier and printing an id.  A task id is a    *)
(* small number n; its UUID is the one whose 128-bit value is n.           *)
(***************************************************************************)
HexDigits == <<"0", "1", "2", "3", "4", "5", "6", "7", "8", "9", "a", "b", "c", "d", "e", "f">>

\* UUID(int=n).hex, for n < 256
uuid_hex(n) ==
    [i \in 1..32 |->
        IF i = 32 THEN HexDigits[(n % 16) + 1]
        ELSE IF i = 31 THEN HexDigits[(n \div 16) + 1]
        ELSE "0"]

\* str(UUID(int=n)): the canonical 8-4-4-4-12 form
uuid_str(n) ==
    LET h == uuid_hex(n)
    IN  SubSeq(h, 1, 8) \o <<"-">> \o SubSeq(h, 9, 12) \o <<"-">>
        \o SubSeq(h, 13, 16) \o <<"-">> \o SubSeq(h, 17, 20) \o <<"-">>
        \o SubSeq(h, 21, 32)

\* str.replace(old, ''), old not empty
RECURSIVE remove(_, _)
remove(s, old) ==
    IF find(s, old) = 0 THEN s
    ELSE SubSeq(s, 1, find(s, old) - 1)
         \o remove(SubSeq(s, find(s, old) + Len(old), Len(s)), old)

\* uuid.UUID(hex): ok is FALSE where the constructor raises ValueError;
\* id is the number of the UUID (0: a well-formed UUID of no task modelled)
uuid_parse(task_id) ==
    LET hex == remove(remove(task_id, <<"u", "r", "n", ":">>), <<"u", "u", "i", "d", ":">>)
        bare == remove(lstrip(rstrip(hex, {"{", "}"}), {"{", "}"}), <<"-">>)
        digits == lower(bare)
        wellFormed ==
            /\ Len(bare) = 32
            /\ \A i \in 1..32 : \E d \in 1..16 : HexDigits[d] = digits[i]
        known == {n \in 1..255 : uuid_hex(n) = digits}
    IN  [ok |-> wellFormed,
         id |-> IF wellFormed /\ known # {} THEN CHOOSE n \in known : TRUE ELSE 0]

\* The identifiers a tool is called with.
Identifiers ==
    { <<"u", "r", "n", ":", "u", "u", "i", "d", ":">> \o uuid_str(1),
      uuid_str(7),
      <<"B", "u", "y">>,
      <<"b", "r", "e", "a", "d">>,
      <<" ", "E", "G", "G", "S", " ">> }

\* identifiers that are empty, blank, a keyword or a whole title
KeywordIdentifiers ==
    { <<>>,
      <<" ", " ">>,
      <<"b", "u", "y">>,
      <<"B", "u", "y">>,
      <<"B", "u", "y", " ", "m", "i", "l", "k">>,
      <<"B", "u", "y", " ", "e", "g", "g", "s">> }

\* UUID(task_id) in the tools, each identifier parsed once
ParsedIdentifiers ==
    [task_id \in Identifiers \cup KeywordIdentifiers |-> uuid_parse(task_id)]
UUID(task_id) == ParsedIdentifiers[task_id]

(***************************************************************************)
(* The tasks table and the task service (services/task_service.py).        *)
(***************************************************************************)
Users == {"u1", "u2"}

TaskStatus == {"pending", "in_progress", "completed"}
TaskPriority == {"low", "medium", "high", "urgent"}

\* Task(owner_id=..., title=..., description=..., deadline=...,
\* status=PENDING) with the column defaults, inserted at time t under the
\* fresh id n that uuid4 draws; a timestamp of 0 is None
NewTask(n, user_id, title, description, deadline, t) ==
    [id |-> n, owner_id |-> user_id, title |-> title,
     description |-> description, status |-> "pending",
     priority |-> "medium", deadline |-> deadline,
     estimated_duration |-> 0, completed_at |-> 0,
     ai_priority |-> None, ai_estimated_duration |-> 0,
     created_at |-> t, updated_at |-> t]

\* db.query(Task).filter(Task.id == task_id).first()
RowsWithId(db, task_id) == {i \in 1..Len(db) : db[i].id = task_id}
row_of(db, task_id) == CHOOSE i \in RowsWithId(db, task_id) : TRUE

\* Outcome of a call: it returns a value or raises.
Returned(value, db) == [raised |-> None, value |-> value, db |-> db]
Raised(exc, message, db) == [raised |-> exc, value |-> message, db |-> db]

create_task(db, user_id, title, description, deadline, t) ==
    LET task == NewTask(t, user_id, title, description, deadline, t)
    IN  Returned(task, Append(db, task))

\* (variant: every user can access every task that exists)
can_access_task_any_user(db, sh, task_id, user_id) ==
    RowsWithId(db, task_id) # {}

can_access_task(db, sh, task_id, user_id) ==
    IF RowsWithId(db, task_id) = {} THEN FALSE
    ELSE IF db[row_of(db, task_id)].owner_id = user_id THEN TRUE
    ELSE <<task_id, user_id>> \in sh

get_task(db, sh, task_id, user_id) ==
    IF RowsWithId(db, task_id) = {}
    THEN Raised("NotFoundError", "Task not found", db)
    ELSE IF ~can_access_task(db, sh, task_id, user_id)
    THEN Raised("ForbiddenError", "You do not have access to this task", db)
    ELSE Returned(db[row_of(db, task_id)], db)

\* get_user_tasks' default page size
DefaultLimit == 20

Reverse(s) == [i \in 1..Len(s) |-> s[Len(s) + 1 - i]]
Take(s, n) == SubSeq(s, 1, IF Len(s) < n THEN Len(s) ELSE n)

\* get_user_tasks(db, user_id) as the tools call it: no filter, skip=0,
\* limit=20, newest first (rows are kept in creation order)
OwnedBy(user_id, task) == task.owner_id = user_id

get_user_tasks(db, user_id) ==
    LET owned == SelectSeq(db, LAMBDA task : OwnedBy(user_id, task))
    IN  Take(Reverse(owned), DefaultLimit)

\* Fields update_task may set, and the value kwargs gives each (None: the
\* keyword is absent, as after model_dump(exclude_none=True))
NoKwargs ==
    [title |-> NoStr, description |-> None, status |-> None,
     priority |-> None, deadline |-> None, estimated_duration |-> 0,
     ai_priority |-> None, ai_estimated_duration |-> 0]

\* (variant: an absent description clears the stored one)
apply_kwargs_clears_description(task, kwargs, t) ==
    [task EXCEPT
        !.title = IF kwargs.title # NoStr THEN kwargs.title ELSE @,
        !.description = kwargs.description,
        !.status = IF kwargs.status # None THEN kwargs.status ELSE @,
        !.priority = IF kwargs.priority # None THEN kwargs.priority ELSE @,
        !.deadline = IF kwargs.deadline # None THEN kwargs.deadline ELSE @,
        !.estimated_duration =
            IF kwargs.estimated_duration # 0 THEN kwargs.estimated_duration ELSE @,
        !.ai_priority = IF kwargs.ai_priority # None THEN kwargs.ai_priority ELSE @,
        !.ai_estimated_duration =
            IF kwargs.ai_estimated_duration # 0 THEN kwargs.ai_estimated_duration ELSE @,
        !.completed_at = IF kwargs.status = "completed" THEN t ELSE @,
        !.updated_at = t]

\* (variant: the status is set without the completion timestamp)
apply_kwargs_keeps_completed_at(task, kwargs, t) ==
    [task EXCEPT
        !.title = IF kwargs.title # NoStr THEN kwargs.title ELSE @,
        !.description = IF kwargs.description # None THEN kwargs.description ELSE @,
        !.status = IF kwargs.status # None THEN kwargs.status ELSE @,
        !.priority = IF kwargs.priority # None THEN kwargs.priority ELSE @,
        !.deadline = IF kwargs.deadline # None THEN kwargs.deadline ELSE @,
        !.estimated_duration =
            IF kwargs.estimated_duration # 0 THEN kwargs.estimated_duration ELSE @,
        !.ai_priority = IF kwargs.ai_priority # None THEN kwargs.ai_priority ELSE @,
        !.ai_estimated_duration =
            IF kwargs.ai_estimated_duration # 0 THEN kwargs.ai_estimated_duration ELSE @,
        !.updated_at = t]

\* (variant: a completed task keeps its status)
apply_kwargs_completed_is_final(task, kwargs, t) ==
    [task EXCEPT
        !.title = IF kwargs.title # NoStr THEN kwargs.title ELSE @,
        !.description = IF kwargs.description # None THEN kwargs.description ELSE @,
        !.status = IF kwargs.status # None /\ @ # "completed" THEN kwargs.status ELSE @,
        !.priority = IF kwargs.priority # None THEN kwargs.priority ELSE @,
        !.deadline = IF kwargs.deadline # None THEN kwargs.deadline ELSE @,
        !.estimated_duration =
            IF kwargs.estimated_duration # 0 THEN kwargs.estimated_duration ELSE @,
        !.ai_priority = IF kwargs.ai_priority # None THEN kwargs.ai_priority ELSE @,
        !.ai_estimated_duration =
            IF kwargs.ai_estimated_duration # 0 THEN kwargs.ai_estimated_duration ELSE @,
        !.completed_at = IF kwargs.status = "completed" THEN t ELSE @,
        !.updated_at = t]

\* for key, value in kwargs.items(): setattr(task, key, value); then
\* completed_at when the status keyword is COMPLETED, and updated_at
apply_kwargs(task, kwargs, t) ==
    [task EXCEPT
        !.title = IF kwargs.title # NoStr THEN kwargs.title ELSE @,
        !.description = IF kwargs.description # None THEN kwargs.description ELSE @,
        !.status = IF kwargs.status # None THEN kwargs.status ELSE @,
        !.priority = IF kwargs.priority # None THEN kwargs.priority ELSE @,
        !.deadline = IF kwargs.deadline # None THEN kwargs.deadline ELSE @,
        !.estimated_duration =
            IF kwargs.estimated_duration # 0 THEN kwargs.estimated_duration ELSE @,
        !.ai_priority = IF kwargs.ai_priority # None THEN kwargs.ai_priority ELSE @,
        !.ai_estimated_duration =
            IF kwargs.ai_estimated_duration # 0 THEN kwargs.ai_estimated_duration ELSE @,
        !.completed_at = IF kwargs.status = "completed" THEN t ELSE @,
        !.updated_at = t]

\* (variant: ownership is not verified)
update_task_service_unverified(db, task_id, user_id, kwargs, t) ==
    IF RowsWithId(db, task_id) = {}
    THEN Raised("NotFoundError", "Task not found", db)
    ELSE LET i == row_of(db, task_id)
             task == apply_kwargs(db[i], kwargs, t)
         IN  Returned(task, [db EXCEPT ![i] = task])

\* (variant: the fields are set and committed before ownership is verified)
update_task_service_verifies_late(db, task_id, user_id, kwargs, t) ==
    IF RowsWithId(db, task_id) = {}
    THEN Raised("NotFoundError", "Task not found", db)
    ELSE LET i == row_of(db, task_id)
             task == apply_kwargs(db[i], kwargs, t)
         IN  IF db[i].owner_id # user_id
             THEN Raised("ForbiddenError",
                         "You do not have permission to update this task",
                         [db EXCEPT ![i] = task])
             ELSE Returned(task, [db EXCEPT ![i] = task])

\* (variant: a task that is not in the table is stored anew)
update_task_service_upserts(db, task_id, user_id, kwargs, t) ==
    IF RowsWithId(db, task_id) = {}
    THEN LET task == apply_kwargs(NewTask(task_id, user_id, kwargs.title, None, None, t),
                                  kwargs, t)
         IN  Returned(task, Append(db, task))
    ELSE IF db[row_of(db, task_id)].owner_id # user_id
    THEN Raised("ForbiddenError",
                "You do not have permission to update this task", db)
    ELSE LET i == row_of(db, task_id)
             task == apply_kwargs(db[i], kwargs, t)
         IN  Returned(task, [db EXCEPT ![i] = task])

update_task_service(db, task_id, user_id, kwargs, t) ==
    IF RowsWithId(db, task_id) = {}
    THEN Raised("NotFoundError", "Task not found", db)
    ELSE IF db[row_of(db, task_id)].owner_id # user_id
    THEN Raised("ForbiddenError",
                "You do not have permission to update this task", db)
    ELSE LET i == row_of(db, task_id)
             task == apply_kwargs(db[i], kwargs, t)
         IN  Returned(task, [db EXCEPT ![i] = task])

delete_task_service(db, task_id, user_id) ==
    IF RowsWithId(db, task_id) = {}
    THEN Raised("NotFoundError", "Task not found", db)
    ELSE IF db[row_of(db, task_id)].owner_id # user_id
    THEN Raised("ForbiddenError",
                "You do not have permission to delete this task", db)
    ELSE Returned(None, SelectSeq(db, LAMBDA task : task.id # task_id))

(***************************************************************************)
(* The chat tools (agents/tools.py).  A tool body either returns a         *)
(* TaskResult or raises; the enclosing try/except turns what it raises     *)
(* into a TaskResult.                                                      *)
(***************************************************************************)
TaskResult(success, message, titles, task_id, task_title) ==
    [kind |-> "TaskResult", success |-> success, message |-> message,
     titles |-> titles, details |-> <<>>, error |-> None,
     task_id |-> task_id, task_title |-> task_title]

\* What a tool body did: it returned `result`, or raised `exc`; db is the
\* tasks table it leaves and outcome the ResolutionOutcome it computed.
Return(result, db, outcome) ==
    [ctl |-> "return", result |-> result, db |-> db, outcome |-> outcome]
Raise(exc, message, db, outcome) ==
    [ctl |-> "raise", result |-> [kind |-> "raised", exc |-> exc, error |-> message],
     db |-> db, outcome |-> outcome]

NotFound == [outcome |-> "NotFound", ids |-> <<>>]
SingleMatch(task) == [outcome |-> "SingleMatch", ids |-> <<task.id>>]
MultipleMatches(found) ==
    [outcome |-> "MultipleMatches", ids |-> [i \in 1..Len(found) |-> found[i].id]]

TitlesOf(found) == [i \in 1..Len(found) |-> found[i].title]

\* (variant: except ValueError, which lets every other exception escape)
except_ValueError(done, prefix) ==
    IF done.ctl = "raise" /\ done.result.exc = "ValueError"
    THEN [done EXCEPT
            !.ctl = "return",
            !.result = [TaskResult(FALSE, prefix, <<>>, 0, NoStr)
                            EXCEPT !.error = done.result.error]]
    ELSE done

\* except Exception as e: return TaskResult(success=False, message=f"{prefix}: {e}")
except_Exception(done, prefix) ==
    IF done.ctl = "raise"
    THEN [done EXCEPT
            !.ctl = "return",
            !.result = [TaskResult(FALSE, prefix, <<>>, 0, NoStr)
                            EXCEPT !.error = done.result.error]]
    ELSE done

\* datetime.fromisoformat(deadline.replace('Z', '+00:00')) succeeds
IsoDeadlines == {"2026-01-01T00:00:00Z"}
is_iso(deadline) == deadline \in IsoDeadlines

\* Number of titles listed after "Available tasks:"
HintLimit == 5

\* [t for t in all_tasks if search_query in t.title.lower()]
\* if len(matching_tasks) > 1: the keyword names several tasks
\* (variant: two matches are not yet several)
ambiguous_beyond_two(found) == Len(found) > 2
ambiguous(found) == Len(found) > 1

TitleHas(search_query, task) == contains(lower(task.title), search_query)

\* (variant: the identifier is stripped but not lower-cased)
matching_tasks_case_sensitive(all_tasks, task_id) ==
    LET search_query == strip(task_id)
    IN  SelectSeq(all_tasks, LAMBDA task : TitleHas(search_query, task))

matching_tasks(all_tasks, task_id) ==
    LET search_query == strip(lower(task_id))
    IN  SelectSeq(all_tasks, LAMBDA task : TitleHas(search_query, task))

\* (variant: a UUID that get_task rejects is searched for in the titles)
resolve_for_update_falls_back(db, sh, user_id, task_id, dbUp) ==
    IF ~dbUp
    THEN Raise("OperationalError", "database unavailable", db, NoResolution)
    ELSE LET got == get_task(db, sh, UUID(task_id).id, user_id)
             all_tasks == get_user_tasks(db, user_id)
             found == matching_tasks(all_tasks, task_id)
         IN  IF UUID(task_id).ok /\ got.raised = None
             THEN [ctl |-> "task", result |-> got.value, db |-> db,
                   outcome |-> SingleMatch(got.value)]
             ELSE IF all_tasks = <<>>
             THEN Return(TaskResult(FALSE, "No tasks found. Cannot update task matching",
                                    <<>>, 0, NoStr), db, NotFound)
             ELSE IF found = <<>>
             THEN Return(TaskResult(FALSE, "No task found matching. Available tasks:",
                                    TitlesOf(Take(all_tasks, HintLimit)), 0, NoStr),
                         db, NotFound)
             ELSE IF ambiguous(found)
             THEN Return(TaskResult(FALSE, "Found tasks matching. Please be more specific!",
                                    TitlesOf(found), 0, NoStr),
                         db, MultipleMatches(found))
             ELSE [ctl |-> "task", result |-> found[1], db |-> db,
                   outcome |-> SingleMatch(found[1])]

\* update_task, lines 201-259: the task the identifier names.  ctl is
\* "task" when one task was found.
resolve_for_update(db, sh, user_id, task_id, dbUp) ==
    IF ~dbUp
    THEN Raise("OperationalError", "database unavailable", db, NoResolution)
    ELSE IF UUID(task_id).ok
    THEN LET got == get_task(db, sh, UUID(task_id).id, user_id)
         IN  IF got.raised # None
             THEN Raise(got.raised, got.value, db, NotFound)
             ELSE [ctl |-> "task", result |-> got.value, db |-> db,
                   outcome |-> SingleMatch(got.value)]
    ELSE LET all_tasks == get_user_tasks(db, user_id)
             found == matching_tasks(all_tasks, task_id)
         IN  IF all_tasks = <<>>
             THEN Return(TaskResult(FALSE, "No tasks found. Cannot update task matching",
                                    <<>>, 0, NoStr), db, NotFound)
             ELSE IF found = <<>>
             THEN Return(TaskResult(FALSE, "No task found matching. Available tasks:",
                                    TitlesOf(Take(all_tasks, HintLimit)), 0, NoStr),
                         db, NotFound)
             ELSE IF ambiguous(found)
             THEN Return(TaskResult(FALSE, "Found tasks matching. Please be more specific!",
                                    TitlesOf(found), 0, NoStr),
                         db, MultipleMatches(found))
             ELSE [ctl |-> "task", result |-> found[1], db |-> db,
                   outcome |-> SingleMatch(found[1])]

\* The full_query arguments update_task is called with.
FullQueries ==
    { NoStr,
      <<"m", "a", "r", "k", " ", "e", "g", "g", "s", " ", "a", "s", " ", "d", "o", "n", "e">>,
      <<"R", "e", "n", "a", "m", "e", " ", "t", "o", " ", "S", "t", "a", "r", "t", " ", "l", "i", "s", "t", ".">> }

\* the extractors on full_query, each text parsed once
StatusInQuery == [q \in FullQueries |-> _parse_status_from_query(q)]
TitleInQuery == [q \in FullQueries |-> _parse_title_from_query(q)]

\* if not status and full_query: parsed_status = ...; if parsed_status: status = parsed_status
\* (variant: full_query is never consulted for the status)
merge_status_explicit_only(status, full_query) == status

\* (variant: a status found in full_query replaces the explicit one)
merge_status_inferred_first(status, full_query) ==
    IF full_query \notin {NoStr, <<>>} /\ StatusInQuery[full_query] # None
    THEN StatusInQuery[full_query]
    ELSE status

merge_status(status, full_query) ==
    IF status = None /\ full_query \notin {NoStr, <<>>}
       /\ StatusInQuery[full_query] # None
    THEN StatusInQuery[full_query]
    ELSE status

\* if not title and full_query: parsed_title = ...; if parsed_title: title = parsed_title
merge_title(title, full_query) ==
    IF title \in {NoStr, <<>>} /\ full_query \notin {NoStr, <<>>}
       /\ TitleInQuery[full_query] # NoStr
    THEN TitleInQuery[full_query]
    ELSE title

\* Field(None, min_length=1, max_length=500) of TaskUpdate.title
TitleMaxLength == 500
valid_title(title) == title = NoStr \/ (Len(title) >= 1 /\ Len(title) <= TitleMaxLength)

\* the updates list of the success message
changes_made(title, status, priority, description, deadline) ==
    (IF title # NoStr THEN <<"title">> ELSE <<>>)
    \o (IF status # None THEN <<"status">> ELSE <<>>)
    \o (IF priority # None THEN <<"priority">> ELSE <<>>)
    \o (IF description # None THEN <<"description">> ELSE <<>>)
    \o (IF deadline # None THEN <<"deadline">> ELSE <<>>)

\* update_task, lines 261-343: what is done with the resolved task
apply_update(db, user_id, a, task, outcome, t) ==
    LET status == merge_status(a.status, a.full_query)
        title == merge_title(a.title, a.full_query)
        kwargs == [NoKwargs EXCEPT
                      !.title = title, !.description = a.description,
                      !.status = status, !.priority = a.priority,
                      !.deadline = a.deadline]
        done == update_task_service(db, task.id, user_id, kwargs, t)
    IN  IF status # None /\ status \notin TaskStatus
        THEN Return(TaskResult(FALSE, "Invalid status. Must be: pending, in_progress, or completed",
                               <<>>, 0, NoStr), db, outcome)
        ELSE IF a.priority # None /\ a.priority \notin TaskPriority
        THEN Return(TaskResult(FALSE, "Invalid priority. Must be: low, medium, high, or urgent",
                               <<>>, 0, NoStr), db, outcome)
        ELSE IF a.deadline # None /\ ~is_iso(a.deadline)
        THEN Return(TaskResult(FALSE, "Invalid deadline format. Use ISO 8601 format.",
                               <<>>, 0, NoStr), db, outcome)
        ELSE IF ~valid_title(title)
        THEN Raise("ValidationError", "title: string length out of range", db, outcome)
        ELSE IF done.raised # None
        THEN Raise(done.raised, done.value, done.db, outcome)
        ELSE Return([TaskResult(TRUE, "Task updated successfully", <<>>,
                                done.value.id, done.value.title)
                        EXCEPT !.details = changes_made(title, status, a.priority,
                                                        a.description, a.deadline)],
                    done.db, outcome)

update_task_body(db, sh, user_id, a, dbUp, t) ==
    LET r == resolve_for_update(db, sh, user_id, a.task_id, dbUp)
    IN  IF r.ctl = "task"
        THEN apply_update(db, user_id, a, r.result, r.outcome, t)
        ELSE r

update_task(db, sh, user_id, a, dbUp, t) ==
    except_Exception(update_task_body(db, sh, user_id, a, dbUp, t),
                     "Failed to update task")

\* delete_task, lines 370-460
delete_task_body(db, sh, user_id, a, dbUp) ==
    IF ~dbUp
    THEN Raise("OperationalError", "database unavailable", db, NoResolution)
    ELSE IF UUID(a.task_id).ok
    THEN LET got == get_task(db, sh, UUID(a.task_id).id, user_id)
             done == delete_task_service(db, UUID(a.task_id).id, user_id)
         IN  IF got.raised # None
             THEN Raise(got.raised, got.value, db, NotFound)
             ELSE IF done.raised # None
             THEN Raise(done.raised, done.value, done.db, SingleMatch(got.value))
             ELSE Return(TaskResult(TRUE, "Task deleted successfully.", <<>>,
                                    got.value.id, got.value.title),
                         done.db, SingleMatch(got.value))
    ELSE LET all_tasks == get_user_tasks(db, user_id)
             found == matching_tasks(all_tasks, a.task_id)
             done == delete_task_service(db, found[1].id, user_id)
         IN  IF all_tasks = <<>>
             THEN Return(TaskResult(FALSE, "No tasks found. Cannot delete task matching",
                                    <<>>, 0, NoStr), db, NotFound)
             ELSE IF found = <<>>
             THEN Return(TaskResult(FALSE,
                                    "No task found matching. Try being more specific or provide the exact task name.",
                                    <<>>, 0, NoStr), db, NotFound)
             ELSE IF ambiguous(found)
             THEN Return(TaskResult(FALSE, "Found tasks matching. Please be more specific!",
                                    TitlesOf(found), 0, NoStr),
                         db, MultipleMatches(found))
             ELSE IF done.raised # None
             THEN Raise(done.raised, done.value, done.db, SingleMatch(found[1]))
             ELSE Return(TaskResult(TRUE, "Task deleted successfully.", <<>>,
                                    found[1].id, found[1].title),
                         done.db, SingleMatch(found[1]))

delete_task(db, sh, user_id, a, dbUp) ==
    except_Exception(delete_task_body(db, sh, user_id, a, dbUp),
                     "Failed to delete task")

\* add_task, lines 51-94
add_task_body(db, user_id, a, dbUp, t) ==
    LET done == create_task(db, user_id, a.title, a.description, a.deadline, t)
    IN  IF a.deadline # None /\ ~is_iso(a.deadline)
        THEN Return(TaskResult(FALSE, "Invalid deadline format. Use ISO 8601 format.",
                               <<>>, 0, NoStr), db, NoResolution)
        ELSE IF a.priority \notin TaskPriority
        THEN Return(TaskResult(FALSE, "Invalid priority. Must be: low, medium, high, or urgent",
                               <<>>, 0, NoStr), db, NoResolution)
        ELSE IF ~dbUp
        THEN Raise("OperationalError", "database unavailable", db, NoResolution)
        ELSE Return([TaskResult(TRUE, "Task created successfully with priority", <<>>,
                                done.value.id, done.value.title)
                        EXCEPT !.details = <<a.priority>>],
                    done.db, NoResolution)

add_task(db, user_id, a, dbUp, t) ==
    except_Exception(add_task_body(db, user_id, a, dbUp, t), "Failed to create task")

\* get_task_info, lines 477-522
get_task_info_body(db, sh, user_id, a, dbUp) ==
    LET got == get_task(db, sh, UUID(a.task_id).id, user_id)
    IN  IF ~UUID(a.task_id).ok
        THEN Return(TaskResult(FALSE, "Invalid task ID format", <<>>, 0, NoStr),
                    db, NoResolution)
        ELSE IF ~dbUp
        THEN Raise("OperationalError", "database unavailable", db, NoResolution)
        ELSE IF got.raised # None
        THEN Raise(got.raised, got.value, db, NotFound)
        ELSE Return([TaskResult(TRUE, "Task details", <<>>, got.value.id, got.value.title)
                        EXCEPT !.details = <<got.value.status, got.value.priority>>],
                    db, SingleMatch(got.value))

get_task_info(db, sh, user_id, a, dbUp) ==
    except_Exception(get_task_info_body(db, sh, user_id, a, dbUp),
                     "Failed to retrieve task")

(***************************************************************************)
(* The tools as actions.  The tasks table starts empty or holding rows     *)
(* that earlier add_task calls created; the arguments of a call are drawn  *)
(* from small sets.                                                        *)
(***************************************************************************)
BuyMilk == <<"B", "u", "y", " ", "m", "i", "l", "k">>
BuyEggs == <<"B", "u", "y", " ", "e", "g", "g", "s">>
CallMom == <<"C", "a", "l", "l", " ", "m", "o", "m">>
PayRent == <<"P", "a", "y", " ", "r", "e", "n", "t">>
WalkDog == <<"W", "a", "l", "k", " ", "d", "o", "g">>
Jam == <<"J", "a", "m">>
\* a title of u1 that quotes the id of the task of u2
RefTask7 == <<"r", "e", "f", " ">> \o uuid_str(7)

\* seven add_task calls: six of u1, one of u2
SeedOwners == <<"u1", "u1", "u1", "u1", "u1", "u1", "u2">>
SeedTitles == <<BuyMilk, BuyEggs, CallMom, PayRent, WalkDog, RefTask7, BuyMilk>>
SeedTasks ==
    [i \in 1..Len(SeedTitles) |-> NewTask(i, SeedOwners[i], SeedTitles[i], None, None, i)]
\* u2 holds a share of task 1
SeedShares == {<<1, "u2">>}

Deadlines == {None, "2026-01-01T00:00:00Z", "tomorrow"}

OptionalGiven(a) ==
    {f \in {"status", "description", "priority", "deadline"} : a[f] # None}
        \cup {f \in {"full_query", "title"} : a[f] # NoStr}

\* a call gives at most two of the optional arguments of update_task
UpdateArgs ==
    {a \in [task_id : Identifiers, full_query : FullQueries,
            title : {NoStr, Jam},
            status : {None, "pending", "bogus"},
            description : {None, "text"},
            priority : {None, "high", "urgentest"},
            deadline : Deadlines] : Cardinality(OptionalGiven(a)) <= 2}

\* the arguments of the calls that meet an unavailable database
PlainUpdate(a) == OptionalGiven(a) = {}

AddArgs ==
    [title : {BuyMilk, Jam}, description : {None, "text"},
     priority : {"medium", "high", "bogus"}, deadline : Deadlines]

PlainAdd(a) == a.description = None /\ a.deadline = None /\ a.priority = "medium"

IdArgs == [task_id : Identifiers]

Init ==
    /\ \/ tasks = <<>> /\ shares = {}
       \/ tasks = SeedTasks /\ shares = SeedShares
    /\ now = Len(tasks)
    /\ ops = 0
    /\ before = tasks
    /\ lastCall = NoCall
    /\ resolved = NoResolution
    /\ lastResult = NoResult
    /\ background = {}
    /\ users = <<>>
    /\ _tasks = <<>>
    /\ _next_id = 1
    /\ added = <<>>
    /\ deleted = {}
    /\ RestIdle
    /\ query = <<>>
    /\ parsedStatus = "Unset"
    /\ parsedTitle = Unset

\* one tool invocation: it ran to `done`
Invoked(tool, user_id, a, dbUp, done) ==
    /\ tasks' = done.db
    /\ lastResult' = done.result
    /\ resolved' = done.outcome
    /\ before' = tasks
    /\ lastCall' = [tool |-> tool, user_id |-> user_id, args |-> a, dbUp |-> dbUp]
    /\ now' = now + 1
    /\ ops' = ops + 1
    /\ UNCHANGED <<shares, background>>
    /\ UNCHANGED <<extractVars, authVars, storeVars, restVars>>

AddTask ==
    /\ ops < MaxOps
    /\ Len(tasks) < MaxTasks
    /\ \E user_id \in Users, a \in AddArgs, dbUp \in BOOLEAN :
          /\ dbUp \/ PlainAdd(a)
          /\ \E done \in {add_task(tasks, user_id, a, dbUp, now + 1)} :
                Invoked("add_task", user_id, a, dbUp, done)

UpdateTask ==
    /\ ops < MaxOps
    /\ \E user_id \in Users, a \in UpdateArgs, dbUp \in BOOLEAN :
          /\ dbUp \/ PlainUpdate(a)
          /\ \E done \in {update_task(tasks, shares, user_id, a, dbUp, now + 1)} :
                Invoked("update_task", user_id, a, dbUp, done)

DeleteTask ==
    /\ ops < MaxOps
    /\ \E user_id \in Users, a \in IdArgs, dbUp \in BOOLEAN :
          \E done \in {delete_task(tasks, shares, user_id, a, dbUp)} :
              Invoked("delete_task", user_id, a, dbUp, done)

GetTaskInfo ==
    /\ ops < MaxOps
    /\ \E user_id \in Users, a \in IdArgs, dbUp \in BOOLEAN :
          \E done \in {get_task_info(tasks, shares, user_id, a, dbUp)} :
              Invoked("get_task_info", user_id, a, dbUp, done)

Next == AddTask \/ UpdateTask \/ DeleteTask \/ GetTaskInfo

Spec == Init /\ [][Next]_vars

(***************************************************************************)
(* Claims about the chat tools (checked under Spec).  They read the last   *)
(* invocation: its arguments (lastCall), the table before it (before) and  *)
(* after it (tasks), what it resolved and what it returned.                *)
(***************************************************************************)
Resolving == lastCall.tool \in {"update_task", "delete_task"}
Caller == lastCall.user_id
Identifier == lastCall.args.task_id
ByUuid == UUID(Identifier).ok

IdsIn(db) == {db[i].id : i \in 1..Len(db)}
RowOf(db, n) == db[CHOOSE i \in 1..Len(db) : db[i].id = n]

\* task n is not the same before and after the invocation
Changed(n) ==
    \/ (n \in IdsIn(before)) # (n \in IdsIn(tasks))
    \/ n \in IdsIn(before) /\ n \in IdsIn(tasks) /\ RowOf(before, n) # RowOf(tasks, n)

\* the caller owns task n or holds a share of it
Accessible(n) ==
    /\ n \in IdsIn(before)
    /\ \/ RowOf(before, n).owner_id = Caller
       \/ <<n, Caller>> \in shares

\* the caller's tasks before the invocation, newest first
Candidates ==
    LET mine == SelectSeq(before, LAMBDA task : task.owner_id = Caller)
    IN  [k \in 1..Len(mine) |-> mine[Len(mine) + 1 - k]]

Keyword == strip(lower(Identifier))

\* the candidates whose lower-cased title contains the keyword, in the
\* candidates' order
Matches ==
    LET keyword == Keyword
    IN  SelectSeq(Candidates, LAMBDA task : Occurs(keyword, lower(task.title)))

NotFoundErrors == {"Task not found", "You do not have access to this task"}

\* C4: with an identifier that parses as a UUID, update_task and
\* delete_task never search the titles: nothing but the task of that id
\* changes, a success names that task, and when the caller can access no
\* task of that id the call fails as not found and changes nothing.
C4_UuidNeverSearchesTitles ==
    (Resolving /\ ByUuid) =>
        /\ \A n \in IdsIn(before) \cup IdsIn(tasks) :
              Changed(n) => n = UUID(Identifier).id
        /\ resolved.outcome # "MultipleMatches"
        /\ resolved.outcome = "SingleMatch" => resolved.ids = <<UUID(Identifier).id>>
        /\ lastResult.success => lastResult.task_id = UUID(Identifier).id
        /\ (lastCall.dbUp /\ ~Accessible(UUID(Identifier).id)) =>
              /\ lastResult.success = FALSE
              /\ lastResult.error \in NotFoundErrors
              /\ resolved = NotFound
              /\ tasks = before

\* A UUID the caller cannot access, quoted in the title of one of the
\* caller's own tasks, was given to update_task.
C4_Witness ==
    /\ lastCall.tool = "update_task"
    /\ ByUuid
    /\ lastCall.dbUp
    /\ ~Accessible(UUID(Identifier).id)
    /\ Matches # <<>>
    /\ lastResult.success = FALSE

\* C5: with an identifier that is no UUID, the number of candidates whose
\* lower-cased title contains the lower-cased, stripped identifier decides
\* the outcome: none is NotFound, one is SingleMatch of that task, more
\* are MultipleMatches of all of them and no other, in the candidates'
\* order.
C5_KeywordResolution ==
    (Resolving /\ ~ByUuid /\ lastCall.dbUp) =>
        LET found == Matches
        IN  /\ Len(found) = 0 => resolved = NotFound
            /\ Len(found) = 1 =>
                  resolved = [outcome |-> "SingleMatch", ids |-> <<found[1].id>>]
            /\ Len(found) >= 2 =>
                  /\ resolved.outcome = "MultipleMatches"
                  /\ resolved.ids = [k \in 1..Len(found) |-> found[k].id]

\* A keyword in mixed case with surrounding blanks matched one of several
\* candidates.
C5_Witness ==
    /\ Resolving /\ ~ByUuid /\ lastCall.dbUp
    /\ Keyword # Identifier
    /\ Len(Matches) = 1
    /\ Len(Candidates) > 1
    /\ resolved.outcome = "SingleMatch"

C7_NoMatchListsAvailable ==
    (Resolving /\ ~ByUuid /\ lastCall.dbUp /\ Matches = <<>>) =>
        LET available == Candidates
        IN  /\ lastResult.success = FALSE
            /\ lastResult.titles =
                  [k \in 1..(IF Len(available) < 5 THEN Len(available) ELSE 5) |->
                      available[k].title]

\* C8: in a successful update_task, an explicit status or title is the one
\* stored; the one inferred from full_query is stored only when the
\* explicit one is absent and full_query is present; description,
\* priority and deadline are the explicit ones or stay as they were.
C8_ExplicitBeatsInferred ==
    (lastCall.tool = "update_task" /\ lastResult.success) =>
        LET a == lastCall.args
            old == RowOf(before, lastResult.task_id)
            new == RowOf(tasks, lastResult.task_id)
            given == a.full_query \notin {NoStr, <<>>}
            inferredStatus == IF given THEN _parse_status_from_query(a.full_query) ELSE None
            inferredTitle == IF given THEN _parse_title_from_query(a.full_query) ELSE NoStr
        IN  /\ new.status = IF a.status # None THEN a.status
                            ELSE IF inferredStatus # None THEN inferredStatus
                            ELSE old.status
            /\ new.title = IF a.title \notin {NoStr, <<>>} THEN a.title
                           ELSE IF inferredTitle # NoStr THEN inferredTitle
                           ELSE old.title
            /\ new.description = IF a.description # None THEN a.description
                                 ELSE old.description
            /\ new.priority = IF a.priority # None THEN a.priority ELSE old.priority
            /\ new.deadline = IF a.deadline # None THEN a.deadline ELSE old.deadline

\* An update gave status "pending" with a full_query that says the task is
\* done, and succeeded.
C8_Witness ==
    /\ lastCall.tool = "update_task"
    /\ lastResult.success
    /\ lastCall.args.status = "pending"
    /\ lastCall.args.full_query \notin {NoStr, <<>>}
    /\ _parse_status_from_query(lastCall.args.full_query) = "completed"
    /\ RowOf(tasks, lastResult.task_id).status = "pending"

C10_AlwaysTaskResult ==
    lastCall.tool # "none" =>
        /\ lastResult.kind = "TaskResult"
        /\ ~lastCall.dbUp => lastResult.success = FALSE
        /\ (/\ lastCall.tool \in {"update_task", "delete_task", "get_task_info"}
            /\ ByUuid
            /\ ~Accessible(UUID(Identifier).id)) => lastResult.success = FALSE

\* add_task reached the database while it was unavailable.
C10_Witness ==
    /\ lastCall.tool = "add_task"
    /\ ~lastCall.dbUp
    /\ lastResult.kind = "TaskResult"
    /\ lastResult.success = FALSE
    /\ lastResult.error = "database unavailable"

(***************************************************************************)
(* The REST API of tasks (backend/app/api/tasks.py).  A handler returns    *)
(* an HTTP response; an AppException it raises becomes the response that   *)
(* app_exception_handler (backend/app/main.py) builds from it.             *)
(***************************************************************************)
Response(status_code, body) ==
    [kind |-> "Response", status_code |-> status_code, body |-> body]

\* status_code of the AppException subclasses
StatusCodeOf == [NotFoundError |-> 404, ForbiddenError |-> 403]
app_exception_handler(exc, message) == Response(StatusCodeOf[exc], message)

\* validation_exception_handler: the request body does not fit its schema
validation_exception_handler == Response(400, "Request validation failed")

\* What a handler did: its response, the tasks table it leaves and the
\* background tasks it started.
Handled(response, db, started) ==
    [response |-> response, db |-> db, started |-> started]

\* TaskCreate(**json): title, description and deadline; any other key of
\* the request body is ignored
TaskCreate(json) ==
    [title |-> json.title, description |-> json.description, deadline |-> json.deadline]

\* POST /tasks
api_create_task(db, user_id, json, t) ==
    LET task_data == TaskCreate(json)
        done == create_task(db, user_id, task_data.title, task_data.description,
                            task_data.deadline, t)
    IN  IF task_data.title = NoStr \/ ~valid_title(task_data.title)
        THEN Handled(validation_exception_handler, db, {})
        ELSE Handled(Response(201, done.value), done.db,
                     {[task_id |-> done.value.id, user_id |-> user_id]})

\* GET /tasks/{task_id}
api_get_task(db, sh, task_id, user_id) ==
    LET got == get_task(db, sh, task_id, user_id)
    IN  IF got.raised # None
        THEN Handled(app_exception_handler(got.raised, got.value), db, {})
        ELSE Handled(Response(200, got.value), db, {})

\* PUT /tasks/{task_id}: task_updates is the TaskUpdate of the body, whose
\* absent fields are None
api_update_task(db, task_id, task_updates, user_id, t) ==
    LET done == update_task_service(db, task_id, user_id, task_updates, t)
    IN  IF \/ task_updates.status \notin TaskStatus \cup {None}
           \/ task_updates.priority \notin TaskPriority \cup {None}
           \/ ~valid_title(task_updates.title)
        THEN Handled(validation_exception_handler, db, {})
        ELSE IF done.raised # None
        THEN Handled(app_exception_handler(done.raised, done.value), done.db, {})
        ELSE Handled(Response(200, done.value), done.db, {})

\* DELETE /tasks/{task_id}
api_delete_task(db, task_id, user_id) ==
    LET done == delete_task_service(db, task_id, user_id)
    IN  IF done.raised # None
        THEN Handled(app_exception_handler(done.raised, done.value), done.db, {})
        ELSE Handled(Response(204, None), done.db, {})

\* (variant: the suggested priority is stored as the priority too)
update_ai_suggestions_sets_priority(db, task_id, user_id, priority, estimated_duration, t) ==
    update_task_service(db, task_id, user_id,
                        [NoKwargs EXCEPT !.ai_priority = priority, !.priority = priority,
                                         !.ai_estimated_duration = estimated_duration],
                        t)

\* update_ai_suggestions: update_task with the two AI fields
update_ai_suggestions(db, task_id, user_id, priority, estimated_duration, t) ==
    update_task_service(db, task_id, user_id,
                        [NoKwargs EXCEPT !.ai_priority = priority,
                                         !.ai_estimated_duration = estimated_duration],
                        t)

\* what generate_priority_and_duration answers: nothing, or a suggestion
AiOutcomes ==
    { [priority |-> None, duration |-> 0], [priority |-> "high", duration |-> 3] }

\* _generate_and_update_ai_suggestions: the table it leaves; what
\* update_ai_suggestions raises is logged and dropped
generate_and_update_ai_suggestions(db, task_id, user_id, ai, t) ==
    IF ai.priority # None /\ ai.duration # 0
    THEN update_ai_suggestions(db, task_id, user_id, ai.priority, ai.duration, t).db
    ELSE db

(***************************************************************************)
(* The REST API and the chat tools over one tasks table: up to             *)
(* MaxRequests requests of the two users, and the background tasks that    *)
(* the requests start.                                                     *)
(***************************************************************************)
\* Number of requests in one behaviour.
MaxRequests == 2

\* ids in the path of a request: a task of u1 that u2 holds a share of, a
\* task of u2, and an id no task has
PathIds == {1, 7, 99}

CreateBodies ==
    [title : {Jam}, description : {None}, deadline : {None},
     priority : {None, "high"}]

TaskUpdates ==
    { [NoKwargs EXCEPT !.status = "completed"],
      [NoKwargs EXCEPT !.status = "pending"],
      [NoKwargs EXCEPT !.title = Jam, !.description = "text"],
      [NoKwargs EXCEPT !.priority = "high", !.estimated_duration = 2],
      [NoKwargs EXCEPT !.status = "bogus", !.title = Jam] }

\* the chat tools' arguments in these behaviours
ChatIdentifiers ==
    { <<"u", "r", "n", ":", "u", "u", "i", "d", ":">> \o uuid_str(1),
      uuid_str(7),
      <<" ", "E", "G", "G", "S", " ">> }
ChatUpdateArgs ==
    {a \in UpdateArgs :
        /\ a.task_id \in ChatIdentifiers
        /\ a.title = NoStr /\ a.description = None
        /\ a.priority = None /\ a.deadline = None
        /\ \/ a.status = None /\ a.full_query \notin {NoStr} /\ StatusInQuery[a.full_query] = "completed"
           \/ a.status = "pending" /\ a.full_query = NoStr}
ChatAddArgs == {a \in AddArgs : a.title = Jam /\ a.description = None /\ a.deadline = None
                                /\ a.priority \in TaskPriority}

ApiInit ==
    /\ Init
    /\ tasks = SeedTasks

\* one request: the handler answered `done`
Requested(method, user_id, a, done) ==
    /\ tasks' = done.db
    /\ lastResult' = done.response
    /\ resolved' = NoResolution
    /\ before' = tasks
    /\ lastCall' = [tool |-> method, user_id |-> user_id, args |-> a, dbUp |-> TRUE]
    /\ background' = background \cup done.started
    /\ now' = now + 1
    /\ ops' = ops + 1
    /\ UNCHANGED shares
    /\ UNCHANGED <<extractVars, authVars, storeVars, restVars>>

ApiCreateTask ==
    /\ ops < MaxRequests
    /\ Len(tasks) < MaxTasks + MaxRequests
    /\ \E user_id \in Users, json \in CreateBodies :
          \E done \in {api_create_task(tasks, user_id, json, now + 1)} :
              Requested("POST /tasks", user_id, json, done)

ApiGetTask ==
    /\ ops < MaxRequests
    /\ \E user_id \in Users, task_id \in PathIds :
          \E done \in {api_get_task(tasks, shares, task_id, user_id)} :
              Requested("GET /tasks/{task_id}", user_id, [task_id |-> task_id], done)

ApiUpdateTask ==
    /\ ops < MaxRequests
    /\ \E user_id \in Users, task_id \in PathIds, task_updates \in TaskUpdates :
          \E done \in {api_update_task(tasks, task_id, task_updates, user_id, now + 1)} :
              Requested("PUT /tasks/{task_id}", user_id,
                        [task_id |-> task_id, task_updates |-> task_updates], done)

ApiDeleteTask ==
    /\ ops < MaxRequests
    /\ \E user_id \in Users, task_id \in PathIds :
          \E done \in {api_delete_task(tasks, task_id, user_id)} :
              Requested("DELETE /tasks/{task_id}", user_id, [task_id |-> task_id], done)

\* a background task started by POST /tasks runs
AiSuggestions ==
    \E job \in background, ai \in AiOutcomes :
        /\ tasks' = generate_and_update_ai_suggestions(tasks, job.task_id, job.user_id,
                                                       ai, now + 1)
        /\ background' = background \ {job}
        /\ before' = tasks
        /\ lastCall' = [tool |-> "_generate_and_update_ai_suggestions",
                        user_id |-> job.user_id,
                        args |-> [task_id |-> job.task_id, ai |-> ai], dbUp |-> TRUE]
        /\ lastResult' = NoResult
        /\ resolved' = NoResolution
        /\ now' = now + 1
        /\ UNCHANGED <<ops, shares>>
        /\ UNCHANGED <<extractVars, authVars, storeVars, restVars>>

ChatAddTask ==
    /\ ops < MaxRequests
    /\ Len(tasks) < MaxTasks + MaxRequests
    /\ \E user_id \in Users, a \in ChatAddArgs :
          \E done \in {add_task(tasks, user_id, a, TRUE, now + 1)} :
              Invoked("add_task", user_id, a, TRUE, done)

ChatUpdateTask ==
    /\ ops < MaxRequests
    /\ \E user_id \in Users, a \in ChatUpdateArgs :
          \E done \in {update_task(tasks, shares, user_id, a, TRUE, now + 1)} :
              Invoked("update_task", user_id, a, TRUE, done)

ChatDeleteTask ==
    /\ ops < MaxRequests
    /\ \E user_id \in Users, task_id \in ChatIdentifiers :
          \E done \in {delete_task(tasks, shares, user_id, [task_id |-> task_id], TRUE)} :
              Invoked("delete_task", user_id, [task_id |-> task_id], TRUE, done)

ApiNext ==
    \/ ApiCreateTask
    \/ ApiGetTask
    \/ ApiUpdateTask
    \/ ApiDeleteTask
    \/ AiSuggestions
    \/ ChatAddTask
    \/ ChatUpdateTask
    \/ ChatDeleteTask

ApiSpec == ApiInit /\ [][ApiNext]_vars

(***************************************************************************)
(* Claims about the tasks table under the REST API and the chat tools      *)
(* (checked under ApiSpec).                                                *)
(***************************************************************************)
\* C11: in every reachable state, every task whose status is completed
\* has a completion timestamp.
C11_CompletedHasTimestamp ==
    \A i \in 1..Len(tasks) :
        tasks[i].status = "completed" => tasks[i].completed_at # 0

\* A request has just moved a task that was pending into completed.
C11_Witness ==
    /\ lastCall.tool \in {"update_task", "PUT /tasks/{task_id}"}
    /\ \E i \in 1..Len(tasks) :
          /\ tasks[i].status = "completed"
          /\ tasks[i].completed_at = now
          /\ \E j \in 1..Len(before) :
                before[j].id = tasks[i].id /\ before[j].status = "pending"

(***************************************************************************)
(* Further claims about the chat tools (checked under Spec).               *)
(***************************************************************************)
\* update_task was called with a keyword that one task of the caller
\* matches, no explicit status, and a full_query with a completed keyword
SingleMatchMarkedDone ==
    /\ lastCall.tool = "update_task"
    /\ ~ByUuid
    /\ Len(Matches) = 1
    /\ lastCall.args.status = None
    /\ lastCall.args.full_query # NoStr
    /\ HasKeyword(lastCall.args.full_query, CompletedKeywords)

\* the call succeeded, the matched task is completed, no other task changed
MatchedTaskCompleted ==
    LET n == Matches[1].id
    IN  /\ lastResult.success
        /\ lastResult.task_id = n
        /\ RowOf(tasks, n).status = "completed"
        /\ \A m \in IdsIn(before) \cup IdsIn(tasks) : Changed(m) => m = n

MaxOwned == 22

\* n tasks of u1: the oldest is "Buy eggs", the newest "Buy milk"
OwnedTasks(n) ==
    [i \in 1..n |->
        NewTask(i, "u1",
                IF i = 1 THEN BuyEggs ELSE IF i = n THEN BuyMilk ELSE CallMom,
                None, None, i)]

PoolIdentifiers ==
    { <<"B", "u", "y">>, <<"b", "r", "e", "a", "d">>, <<" ", "E", "G", "G", "S", " ">> }

PoolUpdateArgs ==
    {a \in UpdateArgs :
        /\ a.task_id \in PoolIdentifiers
        /\ a.title = NoStr /\ a.description = None /\ a.deadline = None
        /\ a.status = None
        /\ a.full_query # NoStr \/ a.priority = "high"}

PoolInit ==
    /\ tasks \in {OwnedTasks(n) : n \in (DefaultLimit - 1)..MaxOwned}
    /\ shares = {}
    /\ now = Len(tasks)
    /\ ops = 0
    /\ before = tasks
    /\ lastCall = NoCall
    /\ resolved = NoResolution
    /\ lastResult = NoResult
    /\ background = {}
    /\ users = <<>>
    /\ _tasks = <<>>
    /\ _next_id = 1
    /\ added = <<>>
    /\ deleted = {}
    /\ RestIdle
    /\ query = <<>>
    /\ parsedStatus = "Unset"
    /\ parsedTitle = Unset

PoolUpdateTask ==
    /\ ops < MaxOps
    /\ \E user_id \in Users, a \in PoolUpdateArgs :
          \E done \in {update_task(tasks, shares, user_id, a, TRUE, now + 1)} :
              Invoked("update_task", user_id, a, TRUE, done)

PoolDeleteTask ==
    /\ ops < MaxOps
    /\ \E user_id \in Users, task_id \in PoolIdentifiers :
          \E done \in {delete_task(tasks, shares, user_id, [task_id |-> task_id], TRUE)} :
              Invoked("delete_task", user_id, [task_id |-> task_id], TRUE, done)

PoolNext == PoolUpdateTask \/ PoolDeleteTask

PoolSpec == PoolInit /\ [][PoolNext]_vars

\* C13: the candidates of keyword resolution are all the tasks the user
\* owns, however many: a keyword that the title of exactly one owned task
\* contains resolves to that task, and one that two or more owned titles
\* contain is reported as ambiguous.
C13_PoolIsEveryOwnedTask ==
    (Resolving /\ ~ByUuid /\ lastCall.dbUp) =>
        LET owned == Matches
        IN  /\ Len(owned) = 1 =>
                  /\ resolved.outcome = "SingleMatch"
                  /\ resolved.ids = <<owned[1].id>>
            /\ Len(owned) >= 2 =>
                  /\ resolved.outcome = "MultipleMatches"
                  /\ lastResult.success = FALSE

(***************************************************************************)
(* Further claims about the tasks table under the REST API and the chat    *)
(* tools (checked under ApiSpec).                                          *)
(***************************************************************************)
\* the id of the task an update or delete request names, 0 when it names
\* none by id
NamedId ==
    IF lastCall.tool \in {"PUT /tasks/{task_id}", "DELETE /tasks/{task_id}"}
    THEN lastCall.args.task_id
    ELSE IF lastCall.tool \in {"update_task", "delete_task"} /\ ByUuid
    THEN UUID(Identifier).id
    ELSE 0

\* the last request was refused as forbidden
Forbidden ==
    IF lastResult.kind = "Response"
    THEN lastResult.status_code = 403
    ELSE /\ lastResult.kind = "TaskResult"
         /\ lastResult.success = FALSE
         /\ lastResult.error \in {"You do not have access to this task",
                                  "You do not have permission to update this task",
                                  "You do not have permission to delete this task"}

\* the last request was refused
Refused ==
    IF lastResult.kind = "Response"
    THEN lastResult.status_code >= 400
    ELSE lastResult.kind = "TaskResult" /\ lastResult.success = FALSE

\* the body of the last request fits its schema
WellFormed ==
    lastCall.tool = "PUT /tasks/{task_id}" =>
        /\ lastCall.args.task_updates.status \in TaskStatus \cup {None}
        /\ lastCall.args.task_updates.priority \in TaskPriority \cup {None}

C15_GetTaskAccess ==
    lastCall.tool = "GET /tasks/{task_id}" =>
        LET n == lastCall.args.task_id
        IN  IF n \notin IdsIn(before)
            THEN /\ lastResult.status_code = 404
                 /\ lastResult.body = "Task not found"
            ELSE IF \/ RowOf(before, n).owner_id = Caller
                    \/ <<n, Caller>> \in shares
            THEN /\ lastResult.status_code = 200
                 /\ lastResult.body = RowOf(before, n)
            ELSE /\ lastResult.status_code = 403
                 /\ lastResult.body = "You do not have access to this task"

\* u1 asked for task 7, which u2 owns and has not shared, and got 403.
C15_Witness ==
    /\ lastCall.tool = "GET /tasks/{task_id}"
    /\ lastCall.args.task_id \in IdsIn(before)
    /\ RowOf(before, lastCall.args.task_id).owner_id # Caller
    /\ <<lastCall.args.task_id, Caller>> \notin shares
    /\ lastResult.status_code = 403

\* C16: a PUT /tasks/{task_id} that succeeds sets the fields its body
\* gives, updated_at, and completed_at when the body's status is completed;
\* every other field of the task, its id and owner among them, keeps its
\* value, and no other task changes.
C16_UpdateChangesOnlyGivenFields ==
    (lastCall.tool = "PUT /tasks/{task_id}" /\ lastResult.status_code = 200) =>
        LET n == lastCall.args.task_id
            u == lastCall.args.task_updates
            old == RowOf(before, n)
            new == RowOf(tasks, n)
        IN  /\ new.id = old.id
            /\ new.owner_id = old.owner_id
            /\ new.created_at = old.created_at
            /\ new.title = IF u.title # NoStr THEN u.title ELSE old.title
            /\ new.description = IF u.description # None THEN u.description
                                 ELSE old.description
            /\ new.status = IF u.status # None THEN u.status ELSE old.status
            /\ new.priority = IF u.priority # None THEN u.priority ELSE old.priority
            /\ new.deadline = IF u.deadline # None THEN u.deadline ELSE old.deadline
            /\ new.estimated_duration = IF u.estimated_duration # 0
                                        THEN u.estimated_duration
                                        ELSE old.estimated_duration
            /\ new.ai_priority = old.ai_priority
            /\ new.ai_estimated_duration = old.ai_estimated_duration
            /\ new.completed_at = IF u.status = "completed" THEN now
                                  ELSE old.completed_at
            /\ new.updated_at = now
            /\ lastResult.body = new
            /\ \A m \in IdsIn(before) \cup IdsIn(tasks) : Changed(m) => m = n

\* A task that an earlier request had given a description was then
\* updated with a body that gives only a status.
C16_Witness ==
    /\ lastCall.tool = "PUT /tasks/{task_id}"
    /\ lastResult.status_code = 200
    /\ lastCall.args.task_updates.description = None
    /\ lastCall.args.task_updates.status = "completed"
    /\ RowOf(before, lastCall.args.task_id).description = "text"
    /\ RowOf(tasks, lastCall.args.task_id).description = "text"
    /\ RowOf(tasks, lastCall.args.task_id).status = "completed"

\* C17: a task created with a requested priority, by POST /tasks or by
\* the add_task tool, is stored with that priority; one created without a
\* priority is stored with priority medium; both with status pending.
C17_RequestedPriorityStored ==
    /\ (lastCall.tool = "POST /tasks" /\ lastResult.status_code = 201) =>
          LET new == RowOf(tasks, lastResult.body.id)
          IN  /\ new.status = "pending"
              /\ new.priority = IF lastCall.args.priority # None
                                THEN lastCall.args.priority
                                ELSE "medium"
    /\ (lastCall.tool = "add_task" /\ lastResult.success) =>
          LET new == RowOf(tasks, lastResult.task_id)
          IN  /\ new.status = "pending"
              /\ new.priority = lastCall.args.priority

(***************************************************************************)
(* Accounts (backend/app/api/auth.py, backend/app/services/user_service.py,*)
(* backend/app/services/auth_service.py).                                  *)
(***************************************************************************)
DigitChars == {"0", "1", "2", "3", "4", "5", "6", "7", "8", "9"}

\* any(c.isupper() for c in s), any(c.islower() ...), any(c.isdigit() ...)
any_isupper(s) == \E i \in 1..Len(s) : s[i] \in {UpperChars[j] : j \in 1..Len(UpperChars)}
any_islower(s) == \E i \in 1..Len(s) : s[i] \in {LowerChars[j] : j \in 1..Len(LowerChars)}
any_isdigit(s) == \E i \in 1..Len(s) : s[i] \in DigitChars

\* pydantic's EmailStr: a value without exactly one "@" between a local
\* part and a domain is refused (NoStr); otherwise the address is kept with
\* its domain in lower case and its local part as written
EmailStr(value) ==
    LET ats == {i \in 1..Len(value) : value[i] = "@"}
    IN  IF Cardinality(ats) # 1 THEN NoStr
        ELSE LET at == CHOOSE i \in ats : TRUE
             IN  IF at = 1 \/ at = Len(value) THEN NoStr
                 ELSE SubSeq(value, 1, at) \o lower(SubSeq(value, at + 1, Len(value)))

PasswordMinLength == 12

\* pwd_context.hash and pwd_context.verify
hash_password(password) == <<"$pbkdf2-sha256$">> \o password
verify_password(plain_password, hashed_password) ==
    hashed_password = hash_password(plain_password)

\* db.query(User).filter(User.email == email).first(): the position of the
\* row in the users table, 0 for None
get_user_by_email(db, email) ==
    LET found == {i \in 1..Len(db) : db[i].email = email}
    IN  IF found = {} THEN 0 ELSE CHOOSE i \in found : \A j \in found : i <= j

User(id, email, password, full_name) ==
    [id |-> id, email |-> email, password_hash |-> hash_password(password),
     full_name |-> full_name, is_active |-> TRUE]

\* user_service.create_user: the users table with the new row; the table
\* unchanged when the email is already there (ConflictError)
create_user(db, email, password, full_name) ==
    IF get_user_by_email(db, email) # 0 THEN db
    ELSE Append(db, User(Len(db) + 1, email, password, full_name))

create_tokens(subject) ==
    [access_token |-> <<"access", subject>>, refresh_token |-> <<"refresh", subject>>,
     token_type |-> "bearer"]

UserResponse(user) ==
    [id |-> user.id, email |-> user.email, full_name |-> user.full_name,
     is_active |-> user.is_active]

\* what an auth handler did: its response and the users table it leaves
Answered(response, db) == [response |-> response, db |-> db]

\* POST /auth/register
register(db, json) ==
    LET email == EmailStr(json.email)
        password == json.password
    IN  IF email = NoStr \/ Len(password) < PasswordMinLength
        THEN Answered(validation_exception_handler, db)
        ELSE IF ~any_isupper(password)
        THEN Answered(Response(400, "Password must contain at least one uppercase letter"), db)
        ELSE IF ~any_islower(password)
        THEN Answered(Response(400, "Password must contain at least one lowercase letter"), db)
        ELSE IF ~any_isdigit(password)
        THEN Answered(Response(400, "Password must contain at least one number"), db)
        ELSE IF get_user_by_email(db, email) # 0
        THEN Answered(Response(409, "Email already registered. Please login instead."), db)
        ELSE LET created == create_user(db, email, password, json.full_name)
                 user == created[Len(created)]
             IN  Answered(Response(201, [user |-> UserResponse(user),
                                         access_token |-> create_tokens(user.id).access_token,
                                         token_type |-> "bearer"]),
                          created)

\* POST /auth/login
login(db, json) ==
    LET email == EmailStr(json.email)
        user == get_user_by_email(db, email)
    IN  IF email = NoStr
        THEN Answered(validation_exception_handler, db)
        ELSE IF user = 0
        THEN Answered(Response(404, "Email not found. Please check your email or sign up."), db)
        ELSE IF ~verify_password(json.password, db[user].password_hash)
        THEN Answered(Response(401, "Incorrect password. Please try again."), db)
        ELSE IF ~db[user].is_active
        THEN Answered(Response(403, "Account is disabled. Please contact support."), db)
        ELSE Answered(Response(200, create_tokens(db[user].id)), db)

\* deactivate_user(db, user_id): update_user(db, user_id, is_active=False)
deactivate_user(db, user_id) ==
    [i \in 1..Len(db) |-> IF db[i].id = user_id
                          THEN [db[i] EXCEPT !.is_active = FALSE]
                          ELSE db[i]]

(***************************************************************************)
(* AuthSpec: register and login requests in any order, on an empty users   *)
(* table or on one that holds an active and a disabled account.            *)
(***************************************************************************)
Email_a == <<"a", "@", "x", ".", "i", "o">>
Email_A == <<"A", "@", "x", ".", "i", "o">>
Email_aX == <<"a", "@", "X", ".", "i", "o">>
Email_b == <<"b", "@", "x", ".", "i", "o">>
Email_bad == <<"a", "x", ".", "i", "o">>
Emails == {Email_a, Email_A, Email_aX, Email_b, Email_bad}

Strong1 == <<"S", "e", "c", "u", "r", "e", "1", "P", "a", "s", "s", "w">>
Strong2 == <<"W", "r", "o", "n", "g", "2", "P", "a", "s", "s", "w", "d">>
TooShort == <<"S", "h", "o", "r", "t", "1">>
NoUpper == lower(Strong1)
NoLower == <<"S", "E", "C", "U", "R", "E", "1", "P", "A", "S", "S", "W">>
NoDigit == <<"S", "e", "c", "u", "r", "e", "P", "a", "s", "s", "w", "d">>
Passwords == {Strong1, Strong2, TooShort, NoUpper, NoLower, NoDigit}

RegisterBodies == [email : Emails, password : Passwords, full_name : {None}]
LoginBodies == [email : Emails, password : {Strong1, Strong2}]

SeedUsers ==
    deactivate_user(create_user(create_user(<<>>, Email_a, Strong1, None),
                                Email_b, Strong1, None), 2)

AuthInit ==
    /\ users \in {<<>>, SeedUsers}
    /\ tasks = <<>>
    /\ shares = {}
    /\ now = 0
    /\ ops = 0
    /\ before = <<>>
    /\ lastCall = NoCall
    /\ resolved = NoResolution
    /\ lastResult = NoResult
    /\ background = {}
    /\ _tasks = <<>>
    /\ _next_id = 1
    /\ added = <<>>
    /\ deleted = {}
    /\ RestIdle
    /\ query = <<>>
    /\ parsedStatus = "Unset"
    /\ parsedTitle = Unset

\* one auth request: the handler answered `done`
AuthRequested(method, json, done) ==
    /\ users' = done.db
    /\ lastResult' = done.response
    /\ lastCall' = [tool |-> method, user_id |-> None, args |-> json, dbUp |-> TRUE]
    /\ now' = now + 1
    /\ ops' = ops + 1
    /\ UNCHANGED <<tasks, shares, before, resolved, background>>
    /\ UNCHANGED <<extractVars, storeVars, restVars>>

Register ==
    /\ ops < MaxRequests
    /\ \E json \in RegisterBodies :
          \E done \in {register(users, json)} :
              AuthRequested("POST /auth/register", json, done)

Login ==
    /\ ops < MaxRequests
    /\ \E json \in LoginBodies :
          \E done \in {login(users, json)} :
              AuthRequested("POST /auth/login", json, done)

AuthNext == Register \/ Login

AuthSpec == AuthInit /\ [][AuthNext]_vars

\* C18: a failed login does not reveal whether the email is registered: a
\* login with an unregistered email and a login with a registered email and
\* a wrong password are both answered 401 "Invalid email or password".
C18_FailedLoginRevealsNothing ==
    LET email == EmailStr(lastCall.args.email)
        user == get_user_by_email(users, email)
    IN  (/\ lastCall.tool = "POST /auth/login"
         /\ email # NoStr
         /\ \/ user = 0
            \/ ~verify_password(lastCall.args.password, users[user].password_hash))
        => lastResult = Response(401, "Invalid email or password")

\* C19: after any sequence of register requests no two accounts have the
\* same email address compared case-insensitively, and a registration
\* answered 409 creates no user.
C19_EmailsUniqueIgnoringCase ==
    \A i, j \in 1..Len(users) :
        lower(users[i].email) = lower(users[j].email) => i = j

(***************************************************************************)
(* The in-memory store of the command-line application                     *)
(* (src/todo_cli/store.py, src/todo_cli/models.py).                        *)
(***************************************************************************)
DescriptionMaxLength == 200
\* ValueError(message), and whether a value is a raised exception
ValueError(message) == [raised |-> "ValueError", message |-> message]
raises(x) == "raised" \in DOMAIN x

\* Task(id=id, description=description): __post_init__ strips the
\* description and raises ValueError when it is empty or too long
Task(id, description, t) ==
    LET stripped == strip(description)
    IN  IF stripped = <<>>
        THEN ValueError("Task description cannot be empty or whitespace-only")
        ELSE IF Len(stripped) > DescriptionMaxLength
        THEN ValueError("Task description cannot exceed 200 characters")
        ELSE [id |-> id, description |-> stripped, completed |-> FALSE, created_at |-> t]

\* None where a Task is expected
NoTask == [is |-> "None"]

\* a TaskStore and what a method returned (or raised)
TaskStore(d, n) == [_tasks |-> d, _next_id |-> n]
Ran(self, result) == [self |-> self, result |-> result]

\* d[k] = v of a dict
setitem(d, k, v) == [i \in DOMAIN d \cup {k} |-> IF i = k THEN v ELSE d[i]]
\* del d[k]
delitem(d, k) == [i \in DOMAIN d \ {k} |-> d[i]]

\* a variant of TaskStore.add that numbers the new task after the tasks stored
add_numbers_by_size(self, description, t) ==
    LET id == Cardinality(DOMAIN self._tasks) + 1
        task == Task(id, description, t)
    IN  IF raises(task) THEN Ran(self, task)
        ELSE Ran(TaskStore(setitem(self._tasks, id, task), id + 1), task)

\* a variant of TaskStore.add that counts a refused description too
add_counts_refusals(self, description, t) ==
    LET task == Task(self._next_id, description, t)
    IN  IF raises(task) THEN Ran(TaskStore(self._tasks, self._next_id + 1), task)
        ELSE Ran(TaskStore(setitem(self._tasks, self._next_id, task),
                           self._next_id + 1),
                 task)

\* TaskStore.add
add(self, description, t) ==
    LET task == Task(self._next_id, description, t)
    IN  IF raises(task) THEN Ran(self, task)
        ELSE Ran(TaskStore(setitem(self._tasks, self._next_id, task),
                                self._next_id + 1),
                      task)

\* a variant of TaskStore.update that stores the validated temporary task
update_stores_temp(self, task_id, description, t) ==
    IF task_id \notin DOMAIN self._tasks THEN Ran(self, NoTask)
    ELSE LET temp == Task(task_id, description, t)
         IN  IF raises(temp) THEN Ran(self, temp)
             ELSE Ran(TaskStore(setitem(self._tasks, task_id, temp), self._next_id), temp)

\* TaskStore.update
update(self, task_id, description, t) ==
    IF task_id \notin DOMAIN self._tasks THEN Ran(self, NoTask)
    ELSE LET temp == Task(-1, description, t)
         IN  IF raises(temp) THEN Ran(self, temp)
             ELSE LET task == [self._tasks[task_id] EXCEPT !.description = temp.description]
                  IN  Ran(TaskStore(setitem(self._tasks, task_id, task), self._next_id),
                               task)

\* TaskStore.delete
delete(self, task_id) ==
    IF task_id \in DOMAIN self._tasks
    THEN Ran(TaskStore(delitem(self._tasks, task_id), self._next_id), TRUE)
    ELSE Ran(self, FALSE)

\* TaskStore.mark_complete
mark_complete(self, task_id) ==
    IF task_id \notin DOMAIN self._tasks THEN Ran(self, NoTask)
    ELSE LET task == [self._tasks[task_id] EXCEPT !.completed = TRUE]
         IN  Ran(TaskStore(setitem(self._tasks, task_id, task), self._next_id), task)

(***************************************************************************)
(* StoreSpec: add, update, mark_complete and delete in any order on a new  *)
(* TaskStore.                                                              *)
(***************************************************************************)
MaxCalls == 5
StoreIds == {1, 2, 3}
Padded == <<" ", "B", "u", "y", " ">>
Blank == <<" ", " ">>
TooLong == [i \in 1..(DescriptionMaxLength + 1) |-> "x"]
Descriptions == {Padded, Blank, TooLong}
NewDescriptions == {<<"C", "a", "l", "l">>, <<>>}

StoreInit ==
    /\ _tasks = <<>>
    /\ _next_id = 1
    /\ added = <<>>
    /\ deleted = {}
    /\ RestIdle
    /\ users = <<>>
    /\ tasks = <<>>
    /\ shares = {}
    /\ now = 0
    /\ ops = 0
    /\ before = <<>>
    /\ lastCall = NoCall
    /\ resolved = NoResolution
    /\ lastResult = NoResult
    /\ background = {}
    /\ query = <<>>
    /\ parsedStatus = "Unset"
    /\ parsedTitle = Unset

\* one call of a TaskStore method: it ran to `done`
Called(method, a, done) ==
    /\ _tasks' = done.self._tasks
    /\ _next_id' = done.self._next_id
    /\ lastResult' = done.result
    /\ lastCall' = [tool |-> method, user_id |-> None, args |-> a, dbUp |-> TRUE]
    /\ added' = IF method = "TaskStore.add" /\ ~raises(done.result)
                THEN Append(added, done.result.id)
                ELSE added
    /\ deleted' = IF method = "TaskStore.delete" /\ done.result = TRUE
                  THEN deleted \cup {a.task_id}
                  ELSE deleted
    /\ now' = now + 1
    /\ ops' = ops + 1
    /\ UNCHANGED <<tasks, shares, before, resolved, background>>
    /\ UNCHANGED <<extractVars, authVars, restVars>>

StoreAdd ==
    /\ ops < MaxCalls
    /\ \E description \in Descriptions :
          \E done \in {add(TaskStore(_tasks, _next_id), description, now + 1)} :
              Called("TaskStore.add", [description |-> description], done)

StoreUpdate ==
    /\ ops < MaxCalls
    /\ \E task_id \in StoreIds, description \in NewDescriptions :
          \E done \in {update(TaskStore(_tasks, _next_id), task_id, description, now + 1)} :
              Called("TaskStore.update",
                     [task_id |-> task_id, description |-> description], done)

StoreMarkComplete ==
    /\ ops < MaxCalls
    /\ \E task_id \in StoreIds :
          \E done \in {mark_complete(TaskStore(_tasks, _next_id), task_id)} :
              Called("TaskStore.mark_complete", [task_id |-> task_id], done)

StoreDelete ==
    /\ ops < MaxCalls
    /\ \E task_id \in StoreIds :
          \E done \in {delete(TaskStore(_tasks, _next_id), task_id)} :
              Called("TaskStore.delete", [task_id |-> task_id], done)

StoreNext == StoreAdd \/ StoreUpdate \/ StoreMarkComplete \/ StoreDelete

StoreSpec == StoreInit /\ [][StoreNext]_vars

\* C20: in TaskStore, after any sequence of add, update, mark_complete and
\* delete, the k-th successful add returned id k, every stored task has a
\* distinct id smaller than _next_id, and the id of a deleted task is never
\* given to a later task.
C20_SequentialIdsNeverReused ==
    /\ \A k \in 1..Len(added) : added[k] = k
    /\ \A i \in DOMAIN _tasks :
          /\ _tasks[i].id = i
          /\ _tasks[i].id < _next_id
    /\ \A i, j \in DOMAIN _tasks : _tasks[i].id = _tasks[j].id => i = j
    /\ deleted \cap DOMAIN _tasks = {}
    /\ (lastCall.tool = "TaskStore.add" /\ ~raises(lastResult)) =>
          lastResult.id \notin deleted

\* C20 witness: a task was added after another was deleted, and a stored
\* task has been updated and completed
C20_Witness ==
    /\ lastCall.tool = "TaskStore.add"
    /\ ~raises(lastResult)
    /\ deleted # {}
    /\ Len(added) >= 2
    /\ \E i \in DOMAIN _tasks : _tasks[i].completed

(***************************************************************************)
(* The SQLite store of the command-line application                        *)
(* (src/todo_cli/db_store.py) and the commands over either store           *)
(* (src/todo_cli/commands.py).                                             *)
(***************************************************************************)
DatabaseTaskStore(rows) == [rows |-> rows]

\* the id SQLite gives a new row of TaskModel: the column is an INTEGER
\* PRIMARY KEY without the AUTOINCREMENT keyword (no sqlite_autoincrement
\* in the table arguments), so the row gets one more than the largest id
\* in the table
autoincrement(rows) ==
    IF DOMAIN rows = {} THEN 1
    ELSE (CHOOSE i \in DOMAIN rows : \A j \in DOMAIN rows : j <= i) + 1

\* DatabaseTaskStore.add
db_add(self, description, t) ==
    LET task == Task(0, description, t)
    IN  IF raises(task) THEN Ran(self, task)
        ELSE LET id == autoincrement(self.rows)
                 result == [task EXCEPT !.id = id]
             IN  Ran(DatabaseTaskStore(setitem(self.rows, id, result)), result)

\* DatabaseTaskStore.update: the description is validated before the row
\* is looked up
db_update(self, task_id, description, t) ==
    LET task == Task(-1, description, t)
    IN  IF raises(task) THEN Ran(self, task)
        ELSE IF task_id \notin DOMAIN self.rows THEN Ran(self, NoTask)
        ELSE LET db_task == [self.rows[task_id] EXCEPT !.description = task.description]
             IN  Ran(DatabaseTaskStore(setitem(self.rows, task_id, db_task)), db_task)

\* DatabaseTaskStore.delete
db_delete(self, task_id) ==
    IF task_id \notin DOMAIN self.rows THEN Ran(self, FALSE)
    ELSE Ran(DatabaseTaskStore(delitem(self.rows, task_id)), TRUE)

\* DatabaseTaskStore.mark_complete
db_mark_complete(self, task_id) ==
    IF task_id \notin DOMAIN self.rows THEN Ran(self, NoTask)
    ELSE LET db_task == [self.rows[task_id] EXCEPT !.completed = TRUE]
         IN  Ran(DatabaseTaskStore(setitem(self.rows, task_id, db_task)), db_task)

\* the tasks a store holds, by id
held(self) == IF "rows" \in DOMAIN self THEN self.rows ELSE self._tasks

\* the values of a dict whose keys were inserted in increasing order, and
\* the rows of a query ordered by id
RECURSIVE by_id(_)
by_id(d) ==
    IF DOMAIN d = {} THEN <<>>
    ELSE LET last == CHOOSE i \in DOMAIN d : \A j \in DOMAIN d : j <= i
         IN  Append(by_id(delitem(d, last)), d[last])

\* self._store.add, .update, .delete, .mark_complete, .get, .get_all of
\* whichever store the commands were given
store_add(self, description, t) ==
    IF "rows" \in DOMAIN self THEN db_add(self, description, t)
    ELSE add(self, description, t)
store_update(self, task_id, description, t) ==
    IF "rows" \in DOMAIN self THEN db_update(self, task_id, description, t)
    ELSE update(self, task_id, description, t)
store_delete(self, task_id) ==
    IF "rows" \in DOMAIN self THEN db_delete(self, task_id) ELSE delete(self, task_id)
store_mark_complete(self, task_id) ==
    IF "rows" \in DOMAIN self THEN db_mark_complete(self, task_id)
    ELSE mark_complete(self, task_id)
store_get(self, task_id) ==
    IF task_id \in DOMAIN held(self) THEN held(self)[task_id] ELSE NoTask
store_get_all(self) == by_id(held(self))

\* CommandResult; data is None, a Task or a list of Tasks
CommandResult(success, message, data) ==
    [kind |-> "CommandResult", success |-> success, message |-> message, data |-> data]
NoData == [is |-> "None", tasks |-> <<>>]
OneTask(task) == [is |-> "Task", tasks |-> <<task>>]
TaskList(tasks_) == [is |-> "list", tasks |-> tasks_]

\* a command's result and the store it leaves
Commanded(self, result) == [self |-> self, result |-> result]

NotFoundResult(task_id) ==
    CommandResult(FALSE, <<"Error: Task with ID ", task_id, " not found">>, NoData)

\* TodoCommands.add
TodoCommands_add(self, description, t) ==
    LET ran == store_add(self, description, t)
    IN  IF raises(ran.result)
        THEN Commanded(ran.self,
                       CommandResult(FALSE, <<"Error: ", ran.result.message>>, NoData))
        ELSE Commanded(ran.self,
                       CommandResult(TRUE,
                                     <<"Task added successfully (ID: ", ran.result.id, ")">>,
                                     OneTask(ran.result)))

\* TodoCommands.list_all
TodoCommands_list_all(self) ==
    LET all == store_get_all(self)
    IN  IF all = <<>>
        THEN Commanded(self,
                       CommandResult(TRUE,
                                     <<"No tasks found. Add a task using 'add <description>'">>,
                                     TaskList(<<>>)))
        ELSE Commanded(self,
                       CommandResult(TRUE, <<"Found ", Len(all), " task(s)">>, TaskList(all)))

\* a variant of TodoCommands.complete without the check for a task that
\* is already complete
complete_marks_again(self, task_id) ==
    LET ran == store_mark_complete(self, task_id)
    IN  IF ran.result = NoTask THEN Commanded(self, NotFoundResult(task_id))
        ELSE Commanded(ran.self,
                       CommandResult(TRUE, <<"Task ", task_id, " marked as complete">>,
                                     OneTask(ran.result)))

\* TodoCommands.complete
TodoCommands_complete(self, task_id) ==
    LET task == store_get(self, task_id)
    IN  IF task = NoTask THEN Commanded(self, NotFoundResult(task_id))
        ELSE IF task.completed
        THEN Commanded(self,
                       CommandResult(TRUE, <<"Task ", task_id, " is already complete">>,
                                     OneTask(task)))
        ELSE LET ran == store_mark_complete(self, task_id)
             IN  Commanded(ran.self,
                           CommandResult(TRUE, <<"Task ", task_id, " marked as complete">>,
                                         OneTask(ran.result)))

\* TodoCommands.update
TodoCommands_update(self, task_id, description, t) ==
    LET ran == store_update(self, task_id, description, t)
    IN  IF raises(ran.result)
        THEN Commanded(ran.self,
                       CommandResult(FALSE, <<"Error: ", ran.result.message>>, NoData))
        ELSE IF ran.result = NoTask THEN Commanded(ran.self, NotFoundResult(task_id))
        ELSE Commanded(ran.self,
                       CommandResult(TRUE, <<"Task ", task_id, " updated successfully">>,
                                     OneTask(ran.result)))

\* TodoCommands.delete
TodoCommands_delete(self, task_id) ==
    LET ran == store_delete(self, task_id)
    IN  IF ~ran.result THEN Commanded(ran.self, NotFoundResult(task_id))
        ELSE Commanded(ran.self,
                       CommandResult(TRUE, <<"Task ", task_id, " deleted successfully">>,
                                     NoData))

(***************************************************************************)
(* CliSpec: the same commands, in any order, given to TodoCommands over a  *)
(* new TaskStore and to TodoCommands over a new DatabaseTaskStore.         *)
(***************************************************************************)
CliInit == StoreInit

\* one command: it ran to `done` over the TaskStore and to `db_done` over
\* the DatabaseTaskStore
Ordered(command, a, done, db_done) ==
    /\ _tasks' = done.self._tasks
    /\ _next_id' = done.self._next_id
    /\ lastResult' = done.result
    /\ db_tasks' = db_done.self.rows
    /\ dbResult' = db_done.result
    /\ lastCall' = [tool |-> command, user_id |-> None, args |-> a, dbUp |-> TRUE]
    /\ added' = IF command = "add" /\ done.result.success
                THEN Append(added, done.result.data.tasks[1].id)
                ELSE added
    /\ deleted' = IF command = "delete" /\ done.result.success
                  THEN deleted \cup {a.task_id}
                  ELSE deleted
    /\ now' = now + 1
    /\ ops' = ops + 1
    /\ UNCHANGED <<tasks, shares, before, resolved, background>>
    /\ UNCHANGED <<extractVars, authVars, rateVars, walked, pending>>

CmdAdd ==
    /\ ops < MaxCalls
    /\ \E description \in Descriptions :
          \E done \in {TodoCommands_add(TaskStore(_tasks, _next_id), description, now + 1)},
             db_done \in {TodoCommands_add(DatabaseTaskStore(db_tasks), description, now + 1)} :
              Ordered("add", [description |-> description], done, db_done)

CmdListAll ==
    /\ ops < MaxCalls
    /\ \E done \in {TodoCommands_list_all(TaskStore(_tasks, _next_id))},
          db_done \in {TodoCommands_list_all(DatabaseTaskStore(db_tasks))} :
              Ordered("list_all", [none |-> None], done, db_done)

CmdComplete ==
    /\ ops < MaxCalls
    /\ \E task_id \in StoreIds :
          \E done \in {TodoCommands_complete(TaskStore(_tasks, _next_id), task_id)},
             db_done \in {TodoCommands_complete(DatabaseTaskStore(db_tasks), task_id)} :
              Ordered("complete", [task_id |-> task_id], done, db_done)

CmdUpdate ==
    /\ ops < MaxCalls
    /\ \E task_id \in StoreIds, description \in NewDescriptions :
          \E done \in {TodoCommands_update(TaskStore(_tasks, _next_id), task_id,
                                           description, now + 1)},
             db_done \in {TodoCommands_update(DatabaseTaskStore(db_tasks), task_id,
                                              description, now + 1)} :
              Ordered("update", [task_id |-> task_id, description |-> description],
                      done, db_done)

CmdDelete ==
    /\ ops < MaxCalls
    /\ \E task_id \in StoreIds :
          \E done \in {TodoCommands_delete(TaskStore(_tasks, _next_id), task_id)},
             db_done \in {TodoCommands_delete(DatabaseTaskStore(db_tasks), task_id)} :
              Ordered("delete", [task_id |-> task_id], done, db_done)

CliNext == CmdAdd \/ CmdListAll \/ CmdComplete \/ CmdUpdate \/ CmdDelete

CliSpec == CliInit /\ [][CliNext]_vars

\* what a CommandResult shows: its success flag, its message, and the id,
\* description and completed flag of each task of its data
Shown(result) ==
    [success |-> result.success, message |-> result.message, is |-> result.data.is,
     tasks |-> [i \in 1..Len(result.data.tasks) |->
                   <<result.data.tasks[i].id, result.data.tasks[i].description,
                     result.data.tasks[i].completed>>]]

\* C21: DatabaseTaskStore is interchangeable with TaskStore behind
\* TodoCommands: after every sequence of add, list_all, complete, update
\* and delete commands, the command over a new DatabaseTaskStore returned
\* the same success flag, message, ids, descriptions and completed flags
\* as the command over a new TaskStore.
C21_StoresInterchangeable ==
    lastCall.tool \in {"add", "list_all", "complete", "update", "delete"} =>
        Shown(dbResult) = Shown(lastResult)

\* C22: completion is permanent: a task whose completed flag is true keeps
\* it in every later state for as long as the task is stored, whatever
\* command runs; a successful update changes the description of its task
\* only, and keeps its id and its completed flag.
C22_CompletionPermanent ==
    [][/\ \A i \in DOMAIN _tasks \cap DOMAIN _tasks' :
             _tasks[i].completed => _tasks'[i].completed
       /\ \A i \in DOMAIN db_tasks \cap DOMAIN db_tasks' :
             db_tasks[i].completed => db_tasks'[i].completed
       /\ (lastCall'.tool = "update" /\ lastResult'.success) =>
             LET i == lastCall'.args.task_id
             IN  /\ _tasks' = [_tasks EXCEPT ![i].description = _tasks'[i].description]
                 /\ lastResult'.data.tasks[1].id = i
                 /\ lastResult'.data.tasks[1].completed = _tasks[i].completed
       /\ (lastCall'.tool = "update" /\ dbResult'.success) =>
             LET i == lastCall'.args.task_id
             IN  db_tasks' = [db_tasks EXCEPT ![i].description = db_tasks'[i].description]]_vars

\* C22 witness: a completed task has been given a new description
C22_Witness ==
    /\ lastCall.tool = "update"
    /\ lastResult.success
    /\ _tasks[lastCall.args.task_id].completed
    /\ lastResult.data.tasks[1].completed

\* whether Task refuses a description: empty, only whitespace, or longer
\* than 200 characters once stripped
Invalid(description) == raises(Task(0, description, 0))

\* C23: TodoCommands.add and TodoCommands.update do not raise on an
\* invalid description: they return CommandResult(success=False,
\* data=None) and leave the store unchanged; a failed add consumes no id,
\* so the successful adds still receive 1, 2, 3, ... in order.
C23_InvalidDescriptionRefused ==
    [][(lastCall'.tool \in {"add", "update"} /\ Invalid(lastCall'.args.description)) =>
          /\ lastResult'.kind = "CommandResult"
          /\ ~lastResult'.success
          /\ lastResult'.data = NoData
          /\ dbResult'.kind = "CommandResult"
          /\ ~dbResult'.success
          /\ dbResult'.data = NoData
          /\ UNCHANGED <<_tasks, _next_id, db_tasks>>
          /\ \A k \in 1..Len(added') : added'[k] = k]_vars

\* C23 witness: an add was refused on a store that holds a task
C23_Witness ==
    /\ lastCall.tool = "add"
    /\ Invalid(lastCall.args.description)
    /\ ~lastResult.success
    /\ DOMAIN _tasks # {}

\* C24: completing is idempotent: TodoCommands.complete on a task that is
\* already complete returns success=True with an 'already complete'
\* message and leaves the store as the first completion left it; complete
\* on a missing id returns success=False and changes nothing.
C24_CompleteIdempotent ==
    [][lastCall'.tool = "complete" =>
          LET i == lastCall'.args.task_id
          IN  /\ (i \in DOMAIN _tasks /\ _tasks[i].completed) =>
                    /\ lastResult'.success
                    /\ lastResult'.message = <<"Task ", i, " is already complete">>
                    /\ UNCHANGED <<_tasks, _next_id>>
              /\ (i \in DOMAIN db_tasks /\ db_tasks[i].completed) =>
                    /\ dbResult'.success
                    /\ dbResult'.message = <<"Task ", i, " is already complete">>
                    /\ UNCHANGED db_tasks
              /\ i \notin DOMAIN _tasks =>
                    /\ ~lastResult'.success
                    /\ UNCHANGED <<_tasks, _next_id>>
              /\ i \notin DOMAIN db_tasks =>
                    /\ ~dbResult'.success
                    /\ UNCHANGED db_tasks]_vars

\* C24 witness: a task was completed a second time
C24_Witness ==
    /\ lastCall.tool = "complete"
    /\ lastResult.success
    /\ lastResult.message = <<"Task ", lastCall.args.task_id, " is already complete">>
    /\ _tasks[lastCall.args.task_id].completed

(***************************************************************************)
(* The rate limiter of the AI service (backend/app/utils/decorators.py).   *)
(***************************************************************************)
RECURSIVE sum_counts(_)
sum_counts(entries) ==
    IF entries = <<>> THEN 0 ELSE entries[1][2] + sum_counts(Tail(entries))

\* wrapper(*args, **kwargs) of rate_limit(limit, window), called at time t
\* with _rate_limit_state[func_name] = state: the state it leaves and
\* whether it went on to call func
wrapper(state, limit, window, t) ==
    LET InWindow(entry) == t - entry[1] < window
        kept == SelectSeq(state, InWindow)
        current_calls == sum_counts(kept)
    IN  IF current_calls >= limit
        THEN [state |-> kept, called |-> FALSE]
        ELSE IF kept # <<>>
        THEN [state |-> [kept EXCEPT ![Len(kept)] = <<kept[Len(kept)][1],
                                                      kept[Len(kept)][2] + 1>>],
              called |-> TRUE]
        ELSE [state |-> Append(kept, <<t, 1>>), called |-> TRUE]

(***************************************************************************)
(* RateSpec: calls of one rate-limited function while time passes.         *)
(***************************************************************************)
MaxLimit == 2
MaxWindow == 3
MaxClock == 5
MaxAttempts == 5

RateInit ==
    /\ max_calls \in 1..MaxLimit
    /\ time_window \in 2..MaxWindow
    /\ _rate_limit_state = <<>>
    /\ clock = 0
    /\ invoked = <<>>
    /\ tasks = <<>>
    /\ shares = {}
    /\ now = 0
    /\ ops = 0
    /\ before = <<>>
    /\ lastCall = NoCall
    /\ resolved = NoResolution
    /\ lastResult = NoResult
    /\ background = {}
    /\ users = <<>>
    /\ _tasks = <<>>
    /\ _next_id = 1
    /\ added = <<>>
    /\ deleted = {}
    /\ db_tasks = <<>>
    /\ dbResult = NoResult
    /\ walked = {}
    /\ pending = {}
    /\ query = <<>>
    /\ parsedStatus = "Unset"
    /\ parsedTitle = Unset

\* time passes
Tick ==
    /\ clock < MaxClock
    /\ clock' = clock + 1
    /\ UNCHANGED <<_rate_limit_state, invoked, max_calls, time_window>>
    /\ UNCHANGED <<toolVars, extractVars, authVars, storeVars, dbVars, walked, pending>>

\* the rate-limited function is called
RateLimitedCall ==
    /\ ops < MaxAttempts
    /\ \E done \in {wrapper(_rate_limit_state, max_calls, time_window, clock)} :
          /\ _rate_limit_state' = done.state
          /\ invoked' = IF done.called THEN Append(invoked, clock) ELSE invoked
          /\ lastCall' = [tool |-> "wrapper", user_id |-> None,
                          args |-> [at |-> clock], dbUp |-> TRUE]
          /\ lastResult' = IF done.called THEN [kind |-> "returned"]
                           ELSE [kind |-> "ValidationError"]
    /\ ops' = ops + 1
    /\ UNCHANGED <<clock, max_calls, time_window>>
    /\ UNCHANGED <<tasks, shares, now, before, resolved, background>>
    /\ UNCHANGED <<extractVars, authVars, storeVars, dbVars, walked, pending>>

RateNext == Tick \/ RateLimitedCall

RateSpec == RateInit /\ [][RateNext]_vars

\* C25: a function wrapped with rate_limit(max_calls, time_window) is
\* invoked at most max_calls times within any interval of time_window
\* seconds; every further call in such an interval raises ValidationError
\* without invoking the function.
C25_AtMostMaxCallsPerWindow ==
    \A from \in 0..clock :
        Cardinality({i \in 1..Len(invoked) :
                        from <= invoked[i] /\ invoked[i] < from + time_window})
            <= max_calls

(***************************************************************************)
(* StatusSpec: updates of the status of one task, by its owner and by      *)
(* another user, through the update_task tool and through PUT.             *)
(***************************************************************************)
MaxUpdates == 6
Task1 == <<"u", "r", "n", ":", "u", "u", "i", "d", ":">> \o uuid_str(1)
StatusArgs ==
    [task_id : {Task1}, full_query : {NoStr}, title : {NoStr}, status : TaskStatus,
     description : {None}, priority : {None}, deadline : {None}]

StatusInit ==
    /\ tasks = <<NewTask(1, "u1", BuyMilk, None, None, 1)>>
    /\ shares = {}
    /\ now = 1
    /\ ops = 0
    /\ before = tasks
    /\ lastCall = NoCall
    /\ resolved = NoResolution
    /\ lastResult = NoResult
    /\ background = {}
    /\ users = <<>>
    /\ _tasks = <<>>
    /\ _next_id = 1
    /\ added = <<>>
    /\ deleted = {}
    /\ RestIdle
    /\ query = <<>>
    /\ parsedStatus = "Unset"
    /\ parsedTitle = Unset

\* the status changes between two tables
Moves(db, after) ==
    {<<db[i].status, after[i].status>> :
        i \in {j \in 1..Len(db) : j <= Len(after) /\ db[j].status # after[j].status}}

\* one update: it left the table `db` and answered `result`
Updated(tool, user_id, a, db, result, outcome) ==
    /\ tasks' = db
    /\ lastResult' = result
    /\ resolved' = outcome
    /\ before' = tasks
    /\ lastCall' = [tool |-> tool, user_id |-> user_id, args |-> a, dbUp |-> TRUE]
    /\ walked' = walked \cup Moves(tasks, db)
    /\ now' = now + 1
    /\ ops' = ops + 1
    /\ UNCHANGED <<shares, background, pending>>
    /\ UNCHANGED <<extractVars, authVars, storeVars, dbVars, rateVars>>

StatusByTool ==
    /\ ops < MaxUpdates
    /\ \E a \in StatusArgs :
          \E done \in {update_task(tasks, shares, "u1", a, TRUE, now + 1)} :
              Updated("update_task", "u1", a, done.db, done.result, done.outcome)

StatusByPut ==
    /\ ops < MaxUpdates
    /\ \E user_id \in Users, s \in TaskStatus :
          \E done \in {api_update_task(tasks, 1, [NoKwargs EXCEPT !.status = s],
                                       user_id, now + 1)} :
              Updated("PUT /tasks/{task_id}", user_id,
                      [task_id |-> 1, task_updates |-> [NoKwargs EXCEPT !.status = s]],
                      done.db, done.response, NoResolution)

StatusNext == StatusByTool \/ StatusByPut

StatusSpec == StatusInit /\ [][StatusNext]_vars

\* the status an update asked for
AskedStatus ==
    IF lastCall.tool = "update_task" THEN lastCall.args.status
    ELSE lastCall.args.task_updates.status

\* C26: the status of a task has no enforced transition graph: whatever
\* the status of the task, one update by its owner that names a status
\* succeeds and leaves the task with that status, so each status is
\* reached from each other in one update.
C26_AnyStatusToAnyStatus ==
    (lastCall.tool \in {"update_task", "PUT /tasks/{task_id}"}
        /\ lastCall.user_id = before[1].owner_id) =>
        /\ tasks[1].status = AskedStatus
        /\ IF lastCall.tool = "update_task" THEN lastResult.success
           ELSE lastResult.status_code = 200
        /\ Moves(before, tasks) \subseteq walked

\* C26 witness: the updates of one behaviour have made each of the six
\* changes between two different statuses
C26_Witness ==
    walked = {<<s, s2>> : s \in TaskStatus, s2 \in TaskStatus} \
                {<<s, s>> : s \in TaskStatus}

(***************************************************************************)
(* KeywordSpec: update_task and delete_task called with an empty, a blank, *)
(* a keyword or a whole-title identifier, and called again with a title    *)
(* that the report of several matches listed.                              *)
(***************************************************************************)
MaxTries == 2
Buy == <<"B", "u", "y">>
OneOwned == <<NewTask(1, "u1", BuyMilk, None, None, 1)>>
ThreeOwned ==
    <<NewTask(1, "u1", Buy, None, None, 1), NewTask(2, "u1", BuyMilk, None, None, 2),
      NewTask(3, "u1", BuyEggs, None, None, 3)>>

KeywordArgs ==
    [task_id : KeywordIdentifiers, full_query : {NoStr}, title : {NoStr},
     status : {"completed"}, description : {None}, priority : {None}, deadline : {None}]

KeywordInit ==
    /\ tasks \in {OneOwned, ThreeOwned}
    /\ shares = {}
    /\ now = Len(tasks)
    /\ ops = 0
    /\ before = tasks
    /\ lastCall = NoCall
    /\ resolved = NoResolution
    /\ lastResult = NoResult
    /\ background = {}
    /\ users = <<>>
    /\ _tasks = <<>>
    /\ _next_id = 1
    /\ added = <<>>
    /\ deleted = {}
    /\ RestIdle
    /\ query = <<>>
    /\ parsedStatus = "Unset"
    /\ parsedTitle = Unset

KeywordUpdate ==
    /\ ops < MaxTries
    /\ \E user_id \in Users, a \in KeywordArgs :
          \E done \in {update_task(tasks, shares, user_id, a, TRUE, now + 1)} :
              Invoked("update_task", user_id, a, TRUE, done)

KeywordDelete ==
    /\ ops < MaxTries
    /\ \E user_id \in Users, task_id \in KeywordIdentifiers :
          \E done \in {delete_task(tasks, shares, user_id, [task_id |-> task_id], TRUE)} :
              Invoked("delete_task", user_id, [task_id |-> task_id], TRUE, done)

\* the user follows a retry command of the last report: the same tool is
\* invoked with a listed title; retry_of holds the candidates listed
Retried(tool, a, done) ==
    /\ tasks' = done.db
    /\ lastResult' = done.result
    /\ resolved' = done.outcome
    /\ before' = tasks
    /\ lastCall' = [tool |-> tool, user_id |-> lastCall.user_id, args |-> a,
                    dbUp |-> TRUE, retry_of |-> resolved.ids]
    /\ now' = now + 1
    /\ ops' = ops + 1
    /\ UNCHANGED <<shares, background>>
    /\ UNCHANGED <<extractVars, authVars, storeVars, restVars>>

RetryUpdate ==
    /\ ops < MaxTries
    /\ lastCall.tool = "update_task"
    /\ resolved.outcome = "MultipleMatches"
    /\ \E i \in 1..Len(lastResult.titles) :
          \E a \in {[lastCall.args EXCEPT !.task_id = lastResult.titles[i]]} :
              \E done \in {update_task(tasks, shares, lastCall.user_id, a, TRUE, now + 1)} :
                  Retried("update_task", a, done)

RetryDelete ==
    /\ ops < MaxTries
    /\ lastCall.tool = "delete_task"
    /\ resolved.outcome = "MultipleMatches"
    /\ \E i \in 1..Len(lastResult.titles) :
          \E a \in {[task_id |-> lastResult.titles[i]]} :
              \E done \in {delete_task(tasks, shares, lastCall.user_id, a, TRUE)} :
                  Retried("delete_task", a, done)

KeywordNext == KeywordUpdate \/ KeywordDelete \/ RetryUpdate \/ RetryDelete

KeywordSpec == KeywordInit /\ [][KeywordNext]_vars

C28_BlankIdentifierResolvesNothing ==
    (lastCall.tool \in {"update_task", "delete_task"}
        /\ strip(lastCall.args.task_id) = <<>>) =>
        /\ resolved.outcome # "SingleMatch"
        /\ ~lastResult.success
        /\ tasks = before

(***************************************************************************)
(* RaceSpec: invocations of update_task and delete_task by one user that   *)
(* interleave.  An update_task invocation resolves its task in one step    *)
(* and calls the task service in a later one; what it resolved is not      *)
(* refreshed in between.                                                   *)
(***************************************************************************)
MaxSteps == 3
RaceIdentifiers == {Task1, BuyMilk, BuyEggs}
RaceArgs == {a \in KeywordArgs : a.task_id \in {BuyMilk, BuyEggs}} \cup StatusArgs

RaceInit == KeywordInit

\* update_task, lines 201-259, of an invocation that finds its task: it
\* holds the task from then on
ResolveUpdate ==
    /\ ops < MaxSteps
    /\ \E a \in RaceArgs :
          \E r \in {resolve_for_update(tasks, shares, "u1", a.task_id, TRUE)} :
              /\ r.ctl = "task"
              /\ pending' = pending \cup {[user_id |-> "u1", args |-> a,
                                           task |-> r.result, outcome |-> r.outcome]}
              /\ lastCall' = [tool |-> "update_task: resolved", user_id |-> "u1",
                              args |-> a, dbUp |-> TRUE]
              /\ resolved' = r.outcome
    /\ lastResult' = NoResult
    /\ before' = tasks
    /\ now' = now + 1
    /\ ops' = ops + 1
    /\ UNCHANGED <<tasks, shares, background, walked>>
    /\ UNCHANGED <<extractVars, authVars, storeVars, dbVars, rateVars>>

\* update_task, lines 261-349, of an invocation that holds a task
PersistUpdate ==
    /\ ops < MaxSteps
    /\ \E p \in pending :
          \E done \in {except_Exception(apply_update(tasks, p.user_id, p.args, p.task,
                                                     p.outcome, now + 1),
                                        "Failed to update task")} :
              /\ tasks' = done.db
              /\ lastResult' = done.result
              /\ resolved' = done.outcome
              /\ lastCall' = [tool |-> "update_task", user_id |-> p.user_id,
                              args |-> p.args, dbUp |-> TRUE, held |-> p.task.id]
              /\ pending' = pending \ {p}
    /\ before' = tasks
    /\ now' = now + 1
    /\ ops' = ops + 1
    /\ UNCHANGED <<shares, background, walked>>
    /\ UNCHANGED <<extractVars, authVars, storeVars, dbVars, rateVars>>

\* a whole delete_task invocation
RaceDelete ==
    /\ ops < MaxSteps
    /\ \E task_id \in RaceIdentifiers :
          \E done \in {delete_task(tasks, shares, "u1", [task_id |-> task_id], TRUE)} :
              Invoked("delete_task", "u1", [task_id |-> task_id], TRUE, done)

RaceNext == ResolveUpdate \/ PersistUpdate \/ RaceDelete

RaceSpec == RaceInit /\ [][RaceNext]_vars

\* C29: when the task that an update_task invocation resolved is deleted
\* by another invocation of the same user before the update is persisted,
\* the update_task invocation returns success=false, creates and modifies
\* no task, and the deleted task does not reappear.
C29_UpdateOfDeletedTaskFails ==
    (lastCall.tool = "update_task" /\ "held" \in DOMAIN lastCall
        /\ lastCall.held \notin IdsIn(before)) =>
        /\ ~lastResult.success
        /\ tasks = before
        /\ lastCall.held \notin IdsIn(tasks)

\* C29 witness: an update was persisted after its task had been deleted,
\* and other tasks of the user remain
C29_Witness ==
    /\ lastCall.tool = "update_task"
    /\ "held" \in DOMAIN lastCall
    /\ lastCall.held \notin IdsIn(before)
    /\ tasks # <<>>

(***************************************************************************)
(* JobSpec: tasks are created through POST /tasks, their owners update and *)
(* delete them, and the background jobs of the creations run at any time   *)
(* in between.                                                             *)
(***************************************************************************)
MaxJobRequests == 3

JobInit == ApiInit

\* the tasks created in this behaviour
Created == {n \in IdsIn(tasks) : n \notin IdsIn(SeedTasks)}

JobCreate ==
    /\ ops < MaxJobRequests
    /\ \E json \in CreateBodies :
          \E done \in {api_create_task(tasks, "u1", json, now + 1)} :
              Requested("POST /tasks", "u1", json, done)

JobUpdate ==
    /\ ops < MaxJobRequests
    /\ \E task_id \in Created, task_updates \in TaskUpdates :
          \E done \in {api_update_task(tasks, task_id, task_updates, "u1", now + 1)} :
              Requested("PUT /tasks/{task_id}", "u1",
                        [task_id |-> task_id, task_updates |-> task_updates], done)

JobDelete ==
    /\ ops < MaxJobRequests
    /\ \E task_id \in Created :
          \E done \in {api_delete_task(tasks, task_id, "u1")} :
              Requested("DELETE /tasks/{task_id}", "u1", [task_id |-> task_id], done)

JobNext == JobCreate \/ JobUpdate \/ JobDelete \/ AiSuggestions

JobSpec == JobInit /\ [][JobNext]_vars

\* C30: the background job that task creation starts, whenever it runs
\* between the owner's later requests, changes only ai_priority,
\* ai_estimated_duration and updated_at of its task: it leaves every other
\* field and every other task alone, does not bring a deleted task back,
\* and when it fails (no suggestion, or the task is gone) it changes
\* nothing, the created task included.
C30_JobWritesOnlySuggestions ==
    lastCall.tool = "_generate_and_update_ai_suggestions" =>
        LET n == lastCall.args.task_id
            ai == lastCall.args.ai
        IN  /\ IdsIn(tasks) = IdsIn(before)
            /\ Len(tasks) = Len(before)
            /\ \A i \in 1..Len(tasks) :
                  IF before[i].id = n /\ ai.priority # None /\ ai.duration # 0
                  THEN tasks[i] = [before[i] EXCEPT !.ai_priority = ai.priority,
                                                    !.ai_estimated_duration = ai.duration,
                                                    !.updated_at = tasks[i].updated_at]
                  ELSE tasks[i] = before[i]

\* C30 witness: the job stored a suggestion on a task that its owner had
\* completed in the meantime
C30_Witness ==
    /\ lastCall.tool = "_generate_and_update_ai_suggestions"
    /\ lastCall.args.ai.priority = "high"
    /\ lastCall.args.task_id \in IdsIn(tasks)
    /\ RowOf(tasks, lastCall.args.task_id).status = "completed"
    /\ RowOf(tasks, lastCall.args.task_id).ai_priority = "high"
    /\ RowOf(tasks, lastCall.args.task_id).priority = "medium"
====
